---- MODULE Spec2Model ----
(***************************************************************************)
(* t10 bot process manager: the Lifecycle Supervisor (core/runner.py), the *)
(* Health & Crash Monitor (core/monitor.py) and the triggers that call     *)
(* restart_bot, as one state machine.                                      *)
(*                                                                         *)
(* The State Store is the TinyDB table 'bots' (a partial map from bot name *)
(* to record), the Runtime Gateway is the Docker daemon (one container     *)
(* t10_<name> per bot).  Every coroutine, thread or CLI process that can   *)
(* call into the runner is a worker with a program counter; a step of a    *)
(* worker is the code it runs between two awaits.                          *)
(***************************************************************************)
EXTENDS Integers, Sequences, FiniteSets, TLC

\* ------------------------------------------------------------------ bounds
MaxNow == 1
MaxLen == 4
MaxClock == 6
MaxThreads == 2

\* ------------------------------------------------------- program constants
DefaultMaxRetries == 3
DefaultRetryDelay == 60
DefaultMinInterval == 5

\* ------------------------------------------------------------- vocabulary
Bots == {"alpha", "beta"}

\* An absent optional value (Python None, or a key the dict does not hold).
None == 0 - 1

ExitCodes == {1, 137}

\* config.json as the monitor reads it back from the record: restart_on_crash,
\* max_retries and retry_delay may be absent (None), webhook_url set or not.
DefaultConfig ==
    [restart_on_crash |-> TRUE, max_retries |-> None, retry_delay |-> None,
     webhook |-> TRUE]
TwoTryConfig ==
    [restart_on_crash |-> TRUE, max_retries |-> 2, retry_delay |-> 5,
     webhook |-> FALSE]
ManualConfig ==
    [restart_on_crash |-> FALSE, max_retries |-> None, retry_delay |-> None,
     webhook |-> TRUE]
Configs == {DefaultConfig, TwoTryConfig, ManualConfig}

NoContainer == [status |-> "none", exit_code |-> None]
RunningContainer == [status |-> "running", exit_code |-> None]
CreatedContainer == [status |-> "created", exit_code |-> None]
\* What the daemon reports for a container that docker stop ended.
StoppedContainer == [status |-> "exited", exit_code |-> 137]

Monitors == {"health", "crash"}
Callers == {"cli"}
\* Two terminals that each run `t10 start`, and the scheduler thread.
Starters == {"cli", "cli2"}
Scheduler == "sched"
\* The cleanup sweep, the third coroutine of start_monitoring.
Cleaner == "cleanup"
Loops == Monitors \cup {Cleaner}
Workers == Monitors \cup Callers \cup Starters \cup {Scheduler, Cleaner}

VARIABLES
    bots,      \* TinyDB table 'bots': bot name -> record, for the names stored
    docker,    \* Docker daemon: bot name -> container t10_<name>
    now,       \* time.time()
    pc,        \* worker -> where it stands
    mode,      \* worker -> the operation it is in: start, stop, restart, proc
    wbot,      \* worker -> the bot name of that operation
    attempt,   \* worker -> loop variable of _handle_bot_crash
    pcfg,      \* worker -> config argument of _handle_bot_crash
    pending,   \* monitor -> what is left of the list its sweep iterates
    ret,       \* worker -> what its last start_bot or restart_bot returned
    trace,     \* worker -> the calls of its current runner call, in order
    waits,     \* worker -> the backoff sleeps of its current procedure
    calls,     \* worker -> restart_bot calls of its current procedure
    note,      \* worker -> notification its current procedure has sent
    stops,     \* bot -> outcome of the last stop_bot and whether the runner
               \* call on that bot just before it was a stop_bot that returned True
    cfgFile,   \* bot -> bots/<name>/config.json
    docs,      \* bot -> number of documents of table 'bots' with that name
    rmdirs,    \* the bots whose directory `t10 remove` has deleted
    schedules, \* TinyDB table 'schedules': its documents, in order
    jobs,      \* the jobs of the schedule module, in the order installed
    srun,      \* BotScheduler.running
    sret,      \* what the last add_schedule, remove_schedule or
               \* force_run_schedule returned
    text,      \* the argument of _parse_schedule_time
    parsed,    \* what _parse_schedule_time returned for it
    mrun,      \* BotMonitor.running
    sthread,   \* the number of threads that run _run_scheduler
    nap,       \* monitor loop -> the sleep that follows its sweep: the period,
               \* or the longer one of its except arm
    hook,      \* how the webhook endpoint of the bots answers a request
    rate_limits, \* WebhookNotifier.rate_limits: url -> its entry
    clock,     \* datetime.now().timestamp()
    lastPost,  \* url -> when the notifier last sent it a request
    retryUntil, \* url -> the time before which it asked for no request
    listed     \* what the last list_bots, list_schedules or health_check
               \* returned, and whether the table could be read

schedVars == <<rmdirs, schedules, jobs, srun, sret>>

parseVars == <<text, parsed>>

loopVars == <<mrun, sthread, nap>>

notifyVars == <<hook, rate_limits, clock, lastPost, retryUntil>>

vars == <<bots, docker, now, pc, mode, wbot, attempt, pcfg, pending,
          ret, trace, waits, calls, note, stops, cfgFile, docs,
          schedVars, parseVars, loopVars, notifyVars, listed>>

\* ---------------------------------------------------------------- helpers
RECURSIVE Pow2(_)
Pow2(n) == IF n = 0 THEN 1 ELSE 2 * Pow2(n - 1)

HasRecord(b) == b \in DOMAIN bots

StatusOf(b) == IF HasRecord(b) THEN bots[b].status ELSE "absent"

Put(tbl, b, rec) == [x \in DOMAIN tbl \cup {b} |-> IF x = b THEN rec ELSE tbl[x]]

\* ------------------------------------------------- runner.py: stop_bot
\* The Docker daemon's answers to stop_bot: it works ("none"), or
\* containers.get, container.stop or container.remove raises something other
\* than NotFound.
StopFaults == {"none", "get_fail", "stop_fail", "remove_fail"}

\* StopContainer with NotFound handled like any other error of the daemon.
StopContainer_NotFoundIsError(c, gw) ==
    IF gw = "get_fail" \/ c.status = "none"
        THEN [c |-> c, reached |-> FALSE, found |-> FALSE]
    ELSE IF gw = "stop_fail" THEN [c |-> c, reached |-> FALSE, found |-> TRUE]
    ELSE IF gw = "remove_fail"
        THEN [c |-> IF c.status = "running" THEN StoppedContainer ELSE c,
              reached |-> FALSE, found |-> TRUE]
    ELSE [c |-> NoContainer, reached |-> TRUE, found |-> TRUE]

\* Lines 82-88, the inner try: the container after the calls, whether the
\* code goes on to line 90 (reached) and whether get raised NotFound.
StopContainer(c, gw) ==
    IF gw = "get_fail" THEN [c |-> c, reached |-> FALSE, found |-> FALSE]
    ELSE IF c.status = "none" THEN [c |-> c, reached |-> TRUE, found |-> FALSE]
    ELSE IF gw = "stop_fail" THEN [c |-> c, reached |-> FALSE, found |-> TRUE]
    ELSE IF gw = "remove_fail"
        THEN [c |-> IF c.status = "running" THEN StoppedContainer ELSE c,
              reached |-> FALSE, found |-> TRUE]
    ELSE [c |-> NoContainer, reached |-> TRUE, found |-> TRUE]

\* Lines 90-92: bots_table.update({'status': 'stopped', 'stopped_at': now}).
StopRecord(rec, t) == [rec EXCEPT !.status = "stopped", !.stopped_at = t]

\* Lines 90-92 on the table: update() changes the records that match the
\* name and none when there is none.
StopTable(tbl, b, t) ==
    IF b \in DOMAIN tbl THEN [tbl EXCEPT ![b] = StopRecord(tbl[b], t)] ELSE tbl

\* stop_bot as a whole: the table, the container and the value returned.
StopBot(tbl, c, b, gw, t) ==
    LET r == StopContainer(c, gw) IN
    [bots |-> IF r.reached THEN StopTable(tbl, b, t) ELSE tbl,
     c |-> r.c,
     ok |-> r.reached,
     found |-> r.found]

\* --------------------------------------------- runner.py: restart_bot
\* restart_bot giving up on a failed stop.
RestartResult_NeedsStop(stopped, started) == stopped /\ started

\* Lines 105-107: the value of stop_bot is dropped, that of start_bot is
\* returned.
RestartResult(stopped, started) == started

\* ------------------------------------------------ runner.py: start_bot
\* What the file system and the token check answer to start_bot.
StartFaults == {"none", "no_dir", "no_config", "no_env", "bad_token"}

\* What the Docker daemon answers to _start_docker_container.
BuildFaults == {"none", "no_dockerfile", "remove_fail", "build_fail", "run_fail"}

\* Lines 175-184.
IsBotRunning(c) == c.status = "running"

\* start_bot going on without the directory of the bot.
StartPrecheck_NoDirCheck(c, f) ==
    IF f \in {"no_config", "no_env"} THEN f
    ELSE IF IsBotRunning(c) THEN "already_running"
    ELSE IF f = "bad_token" THEN f
    ELSE "ok"

\* Lines 32-57: the reason start_bot returns False before it builds, or "ok".
StartPrecheck(c, f) ==
    IF f \in {"no_dir", "no_config", "no_env"} THEN f
    ELSE IF IsBotRunning(c) THEN "already_running"
    ELSE IF f = "bad_token" THEN f
    ELSE "ok"

\* Lines 128-173: the container after _start_docker_container and its result.
\* A stale container of the name is force-removed before the build; a run
\* that fails leaves at most a created, never started, container.
StartDockerContainer(c, d) ==
    IF d = "no_dockerfile" THEN [c |-> c, ok |-> FALSE]
    ELSE IF d = "remove_fail" /\ c.status # "none" THEN [c |-> c, ok |-> FALSE]
    ELSE IF d = "build_fail" THEN [c |-> NoContainer, ok |-> FALSE]
    ELSE IF d = "run_fail" THEN [c |-> CreatedContainer, ok |-> FALSE]
    ELSE [c |-> RunningContainer, ok |-> TRUE]

\* Lines 210-223, _update_bot_record(name, 'running', config): the fields it
\* writes; update() keeps the other fields of a record that exists.
RunningRecord(tbl, b, config, t) ==
    IF b \in DOMAIN tbl
        THEN [tbl[b] EXCEPT !.status = "running", !.config = config,
                            !.started_at = t]
        ELSE [status |-> "running", config |-> config, started_at |-> t,
              stopped_at |-> None, crashed_at |-> None, exit_code |-> None]

\* start_bot writing the record whatever _start_docker_container returned.
StartBuild_AlwaysWrites(tbl, c, b, config, d, t) ==
    LET r == StartDockerContainer(c, d) IN
    [bots |-> Put(tbl, b, RunningRecord(tbl, b, config, t)),
     c |-> r.c,
     ok |-> r.ok]

\* Lines 59-72: build and run, and the record only when that succeeded.
StartBuild(tbl, c, b, config, d, t) ==
    LET r == StartDockerContainer(c, d) IN
    [bots |-> IF r.ok THEN Put(tbl, b, RunningRecord(tbl, b, config, t)) ELSE tbl,
     c |-> r.c,
     ok |-> r.ok]

\* How the webhook endpoint answers a request: 204, another status, no
\* answer within the timeout, or 429.
HookAnswers == {"up", "down", "timeout", "limited"}

\* webhook.py lines 37-54: send_notification returns True for a 204 and
\* False for every other answer and for every exception.
Notified(h) == h = "up"

\* start_bot returning success only once its notification is delivered.
StartResult_NeedsNotice(success, delivered) == success /\ delivered

\* Lines 61-72: the value of send_notification is dropped and success is
\* returned.
StartResult(success, delivered) == success

\* ------------------------------------------- webhook.py: the rate limit
\* The retry-after values a 429 answer carries; None when it has no such
\* header.
RetryAfters == {None, 2, 7}

\* Line 289: .get('min_interval', 5).
MinIntervalOf(entry) ==
    IF entry.min_interval = None THEN DefaultMinInterval ELSE entry.min_interval

\* Lines 282-294, _is_rate_limited: an url without entry is not limited,
\* and neither is one whose entry has no 'last_request' (the KeyError is
\* caught and False returned).
IsRateLimited(rl, u, t) ==
    /\ u \in DOMAIN rl
    /\ rl[u].last_request # None
    /\ t - rl[u].last_request < MinIntervalOf(rl[u])

\* The entry of url u, or the empty dict lines 299-300 and 312-313 create.
EntryOf(rl, u) ==
    IF u \in DOMAIN rl THEN rl[u] ELSE [last_request |-> None, min_interval |-> None]

\* Lines 296-302, _update_rate_limit, called after a 204.
UpdateRateLimit(rl, u, t) ==
    [x \in DOMAIN rl \cup {u} |->
        IF x = u THEN [EntryOf(rl, u) EXCEPT !.last_request = t] ELSE rl[x]]

\* Lines 307-316, _handle_rate_limit, called after a 429.
HandleRateLimit(rl, u, r) ==
    IF r = None THEN rl
    ELSE [x \in DOMAIN rl \cup {u} |->
            IF x = u THEN [EntryOf(rl, u) EXCEPT !.min_interval = r] ELSE rl[x]]

\* Lines 37-47: the dict after the answer a of the endpoint.
AfterAnswer(rl, u, a, r, t) ==
    IF a = "up" THEN UpdateRateLimit(rl, u, t)
    ELSE IF a = "limited" THEN HandleRateLimit(rl, u, r)
    ELSE rl

\* --------------------------------------- monitor.py: _handle_bot_crash
\* Line 148: config.get('max_retries', 3).
MaxRetriesOf(config) ==
    IF config.max_retries = None THEN DefaultMaxRetries ELSE config.max_retries

\* Line 149: config.get('retry_delay', 60).
RetryDelayOf(config) ==
    IF config.retry_delay = None THEN DefaultRetryDelay ELSE config.retry_delay

\* Line 172: retry_delay * (2 ** attempt).
BackoffDelay(config, k) == RetryDelayOf(config) * Pow2(k)

\* The loop sleeping and going on after its last iteration too.
ProcAfterRestart_OneMore(k, maxr, success) ==
    IF success THEN "restarted"
    ELSE IF k < maxr THEN "backoff"
    ELSE "exhausted"

\* Lines 151, 160-172: where the loop goes once restart_bot has returned in
\* iteration k: out with a return, to the backoff sleep, or past its end.
ProcAfterRestart(k, maxr, success) ==
    IF success THEN "restarted"
    ELSE IF k < maxr - 1 THEN "backoff"
    ELSE "exhausted"

\* Lines 151, 174-175: an exception in iteration k is logged and the loop
\* goes to its next iteration at once, or past its end.
ProcAfterRaise(k, maxr) == IF k + 1 < maxr THEN "attempt" ELSE "exhausted"

\* Line 151 entered: range(max_retries) is empty for max_retries <= 0.
ProcFirst(maxr) == IF maxr > 0 THEN "attempt" ELSE "exhausted"

\* Lines 163-168 and 180-185: the notification sent on leaving the procedure.
ProcNote(at, config) ==
    IF at \in {"restarted", "exhausted"} /\ config.webhook THEN at ELSE "none"

\* --------------------------------------------- monitor.py: the sweeps
\* A sweep that calls the procedure whatever the config says.
RestartOnCrash_Always(config) == TRUE

\* Lines 72 and 205: config.get('restart_on_crash', True).
RestartOnCrash(config) == config.restart_on_crash

\* ---------------------------------- monitor.py: _handle_container_crash
\* The sweep going on for every stored record.
CrashApplies_AnyRecord(tbl, b) == b \in DOMAIN tbl

\* Line 193: the sweep goes on only for a stored record that says running.
CrashApplies(tbl, b) == b \in DOMAIN tbl /\ tbl[b].status = "running"

\* The crash record without the container's exit code.
CrashRecord_NoExitCode(rec, container, t) ==
    [rec EXCEPT !.status = "crashed", !.crashed_at = t]

\* Lines 197-201: update({'status': 'crashed', 'crashed_at', 'exit_code'}).
CrashRecord(rec, container, t) ==
    [rec EXCEPT !.status = "crashed", !.crashed_at = t,
                !.exit_code = container.exit_code]

\* ---------------------------------- monitor.py: _is_container_healthy
\* Lines 124-144: the container runs and answers stats().
IsContainerHealthy(c, responsive) == c.status = "running" /\ responsive

\* ------------------------------- scheduler.py: _parse_schedule_time
\* The characters a schedule text is made of here: digits, the dot, the
\* units in lower and upper case, a blank, a sign and a letter.
Digits == {"0", "1", "2", "3", "4", "5"}

Units == {"h", "m", "d"}

Chars == Digits \cup Units \cup {".", "H", " ", "-", "a"}

Texts == UNION {[1..n -> Chars] : n \in 0..MaxLen}

DigitVal ==
    ("0" :> 0) @@ ("1" :> 1) @@ ("2" :> 2) @@ ("3" :> 3) @@ ("4" :> 4) @@ ("5" :> 5)

\* Line 172: .lower().
Lower(t) == [i \in 1..Len(t) |-> IF t[i] = "H" THEN "h" ELSE t[i]]

\* Line 172: .strip().
RECURSIVE LStrip(_)
LStrip(t) == IF t # <<>> /\ Head(t) = " " THEN LStrip(Tail(t)) ELSE t

RECURSIVE RStrip(_)
RStrip(t) ==
    IF t # <<>> /\ t[Len(t)] = " " THEN RStrip(SubSeq(t, 1, Len(t) - 1)) ELSE t

Strip(t) == RStrip(LStrip(t))

\* Line 175, \d+ .
AllDigits(t) == t # <<>> /\ \A i \in 1..Len(t) : t[i] \in Digits

\* Line 175, group 1: \d+(?:\.\d+)? .
IsNumber(t) ==
    \/ AllDigits(t)
    \/ \E i \in 1..Len(t) :
        /\ t[i] = "."
        /\ AllDigits(SubSeq(t, 1, i - 1))
        /\ AllDigits(SubSeq(t, i + 1, Len(t)))

\* Lines 175-176: re.match(r'^(\d+(?:\.\d+)?)(h|m|d)$', text).
Matches(t) ==
    /\ Len(t) >= 2
    /\ t[Len(t)] \in Units
    /\ IsNumber(SubSeq(t, 1, Len(t) - 1))

RECURSIVE DigitsValue(_)
DigitsValue(t) ==
    IF t = <<>> THEN 0
    ELSE 10 * DigitsValue(SubSeq(t, 1, Len(t) - 1)) + DigitVal[t[Len(t)]]

RECURSIVE Pow10(_)
Pow10(k) == IF k = 0 THEN 1 ELSE 10 * Pow10(k - 1)

\* The decimal number group 1 spells: n / 10^k.
Decimal(t) ==
    IF AllDigits(t) THEN [n |-> DigitsValue(t), k |-> 0]
    ELSE LET i == CHOOSE j \in 1..Len(t) : t[j] = "." IN
         [n |-> DigitsValue(SubSeq(t, 1, i - 1) \o SubSeq(t, i + 1, Len(t))),
          k |-> Len(t) - i]

\* The same number without trailing zeros in its fraction.
RECURSIVE Reduced(_)
Reduced(v) ==
    IF v.k > 0 /\ v.n % 10 = 0 THEN Reduced([n |-> v.n \div 10, k |-> v.k - 1])
    ELSE v

\* Lines 184-189: the factor of the unit.
UnitMinutes(u) == IF u = "m" THEN 1 ELSE IF u = "h" THEN 60 ELSE 1440

\* Lines 181, 186-189: float(group 1) * factor in IEEE-754 binary64.  For
\* these decimals n / 10^k (of at most four characters over Digits) the exact
\* product is a whole number and the double product is the double just
\* below it; for every other one int() of the double product is the floor of
\* the exact product.
RoundsBelow ==
    {<<14, 1, 1440>>, <<23, 1, 1440>>, <<35, 2, 1440>>, <<41, 1, 60>>,
     <<41, 1, 1440>>, <<51, 1, 1440>>, <<102, 1, 1440>>, <<112, 1, 1440>>,
     <<115, 2, 1440>>, <<204, 1, 1440>>, <<205, 2, 60>>, <<205, 2, 1440>>,
     <<214, 1, 1440>>, <<224, 1, 1440>>, <<255, 2, 1440>>, <<323, 1, 60>>,
     <<323, 1, 1440>>, <<333, 1, 60>>, <<333, 1, 1440>>, <<343, 1, 1440>>,
     <<353, 1, 1440>>, <<403, 1, 1440>>, <<413, 1, 1440>>, <<423, 1, 1440>>,
     <<433, 1, 1440>>, <<435, 2, 1440>>, <<443, 1, 1440>>, <<453, 1, 1440>>,
     <<535, 2, 1440>>}

\* Lines 184-189: int(value) for m, int(value * 60) for h, int(value * 1440)
\* for d.
IntOfProduct(v, factor) ==
    LET r == Reduced(v)
        exact == (r.n * factor) \div Pow10(r.k)
    IN IF factor # 1 /\ <<r.n, r.k, factor>> \in RoundsBelow
        THEN exact - 1 ELSE exact

\* Lines 169-195, _parse_schedule_time: minutes, or None.
ParseScheduleTime(t) ==
    LET s == Strip(Lower(t)) IN
    IF ~Matches(s) THEN None
    ELSE IntOfProduct(Decimal(SubSeq(s, 1, Len(s) - 1)), UnitMinutes(s[Len(s)]))

\* ------------------------------------------ scheduler.py: the schedules
\* add_schedule turning away None only.
Rejected_NoneOnly(interval) == interval = None

\* Line 24: `if not interval` takes None and 0 alike.
Rejected(interval) == interval = None \/ interval = 0

\* Lines 31-38: the document add_schedule writes.
ScheduleRecord(b, t, interval, at) ==
    [bot_name |-> b, schedule_time |-> t, interval_minutes |-> interval,
     created_at |-> at, last_run |-> None]

\* Line 29: schedules_table.get(Schedule.bot_name == bot_name) finds one.
HasSchedule(tbl, b) == \E i \in 1..Len(tbl) : tbl[i].bot_name = b

\* Lines 40-43: update() of the documents of that name, or insert().
Upsert(tbl, b, rec) ==
    IF HasSchedule(tbl, b)
        THEN [i \in 1..Len(tbl) |-> IF tbl[i].bot_name = b THEN rec ELSE tbl[i]]
        ELSE Append(tbl, rec)

\* Line 61: schedules_table.remove(Schedule.bot_name == bot_name).
RemoveRecords(tbl, b) == SelectSeq(tbl, LAMBDA r : r.bot_name # b)

\* _restart_bot without the write of last_run.
TouchLastRun_Never(tbl, b, t) == tbl

\* Lines 143-146: update({'last_run': time.time()}) of the documents of b.
TouchLastRun(tbl, b, t) ==
    [i \in 1..Len(tbl) |->
        IF tbl[i].bot_name = b THEN [tbl[i] EXCEPT !.last_run = t] ELSE tbl[i]]

\* Lines 124 and 65: schedule.clear(tag).
ClearTag(js, b) == SelectSeq(js, LAMBDA j : j.tag # b)

\* Lines 126-134: the period, in minutes, of the job _setup_schedule
\* installs: every(days).days, every(hours).hours or every(n).minutes.
TriggerPeriod(interval) ==
    IF interval >= 1440 THEN (interval \div 1440) * 1440
    ELSE IF interval >= 60 THEN (interval \div 60) * 60
    ELSE interval

\* Lines 121-136, _setup_schedule: the new job comes due one period from
\* now.
SetupSchedule(js, b, interval) ==
    Append(ClearTag(js, b),
           [tag |-> b, period |-> TriggerPeriod(interval), due |-> FALSE])

\* A job that has run stays due.
AfterRun_StaysDue(js, b) == js

\* Line 115, schedule.run_pending(): a job that has run comes due again one
\* period later.
AfterRun(js, b) ==
    [i \in 1..Len(js) |->
        IF js[i].tag = b THEN [js[i] EXCEPT !.due = FALSE] ELSE js[i]]

\* The jobs without their clocks: what is installed, and with which period.
Triggers(js) == [i \in 1..Len(js) |-> [tag |-> js[i].tag, period |-> js[i].period]]

\* remove_schedule without schedule.clear(bot_name).
RemoveScheduleOf_KeepsJob(tbl, js, b) ==
    [schedules |-> RemoveRecords(tbl, b),
     jobs |-> js,
     ok |-> HasSchedule(tbl, b)]

\* Lines 57-74, remove_schedule: the table, the jobs and the value returned.
RemoveScheduleOf(tbl, js, b) ==
    [schedules |-> RemoveRecords(tbl, b),
     jobs |-> IF HasSchedule(tbl, b) THEN ClearTag(js, b) ELSE js,
     ok |-> HasSchedule(tbl, b)]

\* -------------------------------------------------------------- the state
Idle == "-"

\* _parse_schedule_time has not been called.
NotYet == 0 - 2

NoStops == [prev |-> FALSE, last |-> "none"]

\* The webhook urls of the config.json files.
Endpoints == {"u1", "u2"}

\* No list_bots, list_schedules or health_check has been called.
NoOutput == [op |-> "none", value |-> "none", readable |-> TRUE]

Empty == [x \in {} |-> None]

Without(f, b) == [x \in DOMAIN f \ {b} |-> f[x]]

InitRecord(config) ==
    [status |-> "running", config |-> config, started_at |-> 0,
     stopped_at |-> None, crashed_at |-> None, exit_code |-> None]

\* The state once the manager is up: each bot either was never started or
\* has been started once, with the config of its config.json.
InitCore ==
    /\ cfgFile \in [Bots -> Configs]
    /\ \E started \in SUBSET Bots :
        /\ bots = [b \in started |-> InitRecord(cfgFile[b])]
        /\ docker = [b \in Bots |->
                        IF b \in started THEN RunningContainer ELSE NoContainer]
    /\ now = 0
    /\ pc = [w \in Workers |-> "idle"]
    /\ mode = [w \in Workers |-> "none"]
    /\ wbot = [w \in Workers |-> Idle]
    /\ attempt = [w \in Workers |-> 0]
    /\ pcfg = [w \in Workers |-> DefaultConfig]
    /\ pending = [w \in Monitors |-> Empty]
    /\ ret = [w \in Workers |-> "none"]
    /\ trace = [w \in Workers |-> <<>>]
    /\ waits = [w \in Workers |-> <<>>]
    /\ calls = [w \in Workers |-> 0]
    /\ note = [w \in Workers |-> "none"]
    /\ stops = [b \in Bots |-> NoStops]
    /\ docs = [b \in Bots |-> IF b \in DOMAIN bots THEN 1 ELSE 0]
    /\ rmdirs = {}
    /\ schedules = <<>>
    /\ jobs = <<>>
    /\ srun = FALSE
    /\ sret = "none"
    /\ parsed = NotYet
    /\ mrun = TRUE
    /\ sthread = 0
    /\ nap = [w \in Monitors |-> "period"]
    /\ hook = "up"
    /\ rate_limits = Empty
    /\ clock = 0
    /\ lastPost = [u \in Endpoints |-> None]
    /\ retryUntil = [u \in Endpoints |-> None]
    /\ listed = NoOutput

Init == InitCore /\ text = <<>>

\* ------------------------------------------------------------ environment
\* time.time() moves on.
Tick ==
    /\ now < MaxNow
    /\ now' = now + 1
    /\ UNCHANGED <<bots, docker, pc, mode, wbot, attempt, pcfg, pending,
                   ret, trace, waits, calls, note, stops, cfgFile, docs,
                   schedVars, parseVars, loopVars, notifyVars, listed>>

\* The process in a running container ends: Docker reports exited or dead.
ContainerExits(b, st, code) ==
    /\ docker[b].status = "running"
    /\ docker' = [docker EXCEPT ![b] = [status |-> st, exit_code |-> code]]
    /\ UNCHANGED <<bots, now, pc, mode, wbot, attempt, pcfg, pending,
                   ret, trace, waits, calls, note, stops, cfgFile, docs,
                   schedVars, parseVars, loopVars, notifyVars, listed>>

\* A container whose name holds t10_<b> and which no record stands for,
\* made outside the manager, shows up exited or dead in the listing of the
\* crash sweep (monitor.py lines 85-92).
StrayExits(b, st, code) ==
    /\ ~HasRecord(b)
    /\ docker[b].status = "none"
    /\ docker' = [docker EXCEPT ![b] = [status |-> st, exit_code |-> code]]
    /\ UNCHANGED <<bots, now, pc, mode, wbot, attempt, pcfg, pending,
                   ret, trace, waits, calls, note, stops, cfgFile, docs,
                   schedVars, parseVars, loopVars, notifyVars, listed>>

\* The webhook endpoint goes down, times out, limits the rate or comes back.
HookChanges(h) ==
    /\ h # hook
    /\ hook' = h
    /\ UNCHANGED <<bots, docker, now, pc, mode, wbot, attempt, pcfg, pending,
                   ret, trace, waits, calls, note, stops, cfgFile, docs,
                   schedVars, parseVars, loopVars, rate_limits, clock,
                   lastPost, retryUntil, listed>>

\* ------------------------------------------------------- the event loop
\* The sweeps are coroutines of one asyncio event loop (monitor.py lines
\* 44-51): one runs from an await to its next await before another runs.
\* A sweep is at an await when it sleeps between sweeps (idle), in the
\* settle sleep, in the backoff sleep or in the token check (build); one
\* that has returned holds the loop no more.
AtAwait(w) == pc[w] \in {"idle", "settle", "build", "backoff", "exited"}

LoopFree(w) == w \in Monitors => \A v \in Monitors \ {w} : AtAwait(v)

\* ----------------------------------------------------- steps of the runner
\* How a stop_bot call ended: the container was found, stopped and removed
\* ("ok"), get raised NotFound ("nf"), or the daemon raised (the fault).
StopOutcome(r, gw) ==
    IF r.ok THEN (IF r.found THEN "ok" ELSE "nf")
    ELSE IF gw = "none" THEN "error" ELSE gw

\* Worker w runs stop_bot(b) against daemon answer gw.  Of a call of
\* `t10 stop` (plain) the outcome is kept, and whether the runner call on
\* that bot just before was a `t10 stop` that returned True.
DoStop(w, b, gw, plain) ==
    LET r == StopBot(bots, docker[b], b, gw, now)
        out == StopOutcome(r, gw)
    IN
    /\ bots' = r.bots
    /\ docker' = [docker EXCEPT ![b] = r.c]
    /\ stops' = [stops EXCEPT ![b] =
            IF plain
                THEN [prev |-> stops[b].last \in {"ok", "nf"}, last |-> out]
                ELSE NoStops]
    /\ trace' = [trace EXCEPT ![w] = <<IF r.ok THEN "stop_ok" ELSE "stop_fail">>]

\* start_bot has returned to worker w: lines 72 and 76, with "start_ok" or
\* the reason of failure as the last of evs; then restart_bot returns, if
\* that made the call, and the caller's code runs up to its next await.
Return(w, evs) ==
    LET started == evs[Len(evs)] = "start_ok"
        ok == IF mode[w] \in {"none", "start"} THEN started
              ELSE RestartResult(trace[w][1] # "stop_fail", started)
        at == ProcAfterRestart(attempt[w], MaxRetriesOf(pcfg[w]), ok)
    IN
    /\ ret' = [ret EXCEPT ![w] = IF ok THEN "ok" ELSE "fail"]
    /\ IF mode[w] = "proc"
        THEN /\ pc' = [pc EXCEPT ![w] = at]
             /\ trace' = [trace EXCEPT ![w] = <<>>]
             /\ waits' = [waits EXCEPT ![w] =
                    IF at = "backoff"
                        THEN Append(@, BackoffDelay(pcfg[w], attempt[w])) ELSE @]
             /\ note' = [note EXCEPT ![w] = ProcNote(at, pcfg[w])]
        ELSE /\ pc' = [pc EXCEPT ![w] = "done"]
             /\ trace' = [trace EXCEPT ![w] = @ \o evs]
             /\ UNCHANGED <<waits, note>>

\* runner.py lines 30-57 for worker w: start_bot up to the token check,
\* after the events evs of the same step.
Precheck(w, b, f, evs) ==
    LET why == StartPrecheck(docker[b], f) IN
    /\ b \in rmdirs => f = "no_dir"
    /\ stops' = [stops EXCEPT ![b] = NoStops]
    /\ IF why = "ok"
        THEN /\ pc' = [pc EXCEPT ![w] = "build"]
             /\ trace' = [trace EXCEPT ![w] = @ \o evs]
             /\ UNCHANGED <<ret, waits, note>>
        ELSE Return(w, Append(evs, why))

\* cli.py `t10 stop <bot>`: asyncio.run(runner.stop_bot(bot)).
CliStop(b, gw) ==
    /\ pc["cli"] = "idle"
    /\ DoStop("cli", b, gw, TRUE)
    /\ pc' = [pc EXCEPT !["cli"] = "done"]
    /\ mode' = [mode EXCEPT !["cli"] = "stop"]
    /\ wbot' = [wbot EXCEPT !["cli"] = b]
    /\ ret' = [ret EXCEPT !["cli"] =
                  IF StopBot(bots, docker[b], b, gw, now).ok THEN "ok" ELSE "fail"]
    /\ UNCHANGED <<now, attempt, pcfg, pending, waits, calls, note, cfgFile, docs,
                   schedVars, parseVars, loopVars, notifyVars, listed>>

\* cli.py `t10 start <bot>`: start_bot up to the token check.
CliStart(b, f) ==
    /\ pc["cli"] = "idle"
    /\ mode' = [mode EXCEPT !["cli"] = "start"]
    /\ wbot' = [wbot EXCEPT !["cli"] = b]
    /\ Precheck("cli", b, f, <<>>)
    /\ UNCHANGED <<bots, docker, now, attempt, pcfg, pending, calls, cfgFile, docs,
                   schedVars, parseVars, loopVars, notifyVars, listed>>

\* cli.py `t10 restart <bot>`, runner.py restart_bot lines 105-106:
\* stop_bot, then the settle sleep begins.
RestartBegin(w, b, gw) ==
    /\ w \in Callers
    /\ pc[w] = "idle"
    /\ DoStop(w, b, gw, FALSE)
    /\ pc' = [pc EXCEPT ![w] = "settle"]
    /\ mode' = [mode EXCEPT ![w] = "restart"]
    /\ wbot' = [wbot EXCEPT ![w] = b]
    /\ UNCHANGED <<now, attempt, pcfg, pending, ret, waits, calls, note, cfgFile, docs,
                   schedVars, parseVars, loopVars, notifyVars, listed>>

\* runner.py lines 106-107: asyncio.sleep(2) is over and start_bot runs up to
\* the token check.
Settle(w, f) ==
    /\ LoopFree(w)
    /\ pc[w] = "settle"
    /\ Precheck(w, wbot[w], f, <<"settle">>)
    /\ UNCHANGED <<bots, docker, now, mode, wbot, attempt, pcfg, pending,
                   calls, cfgFile, docs,
                   schedVars, parseVars, loopVars, notifyVars, listed>>

\* runner.py lines 54-72: the token is accepted, _start_docker_container
\* runs against daemon answer d, the record is written on success, the
\* notification is sent to an endpoint that answers as hook says, and
\* start_bot returns.
Build(w, d) ==
    /\ LoopFree(w)
    /\ pc[w] = "build"
    /\ LET b == wbot[w]
           r == StartBuild(bots, docker[b], b, cfgFile[b], d, now)
       IN
        /\ bots' = r.bots
        /\ docs' = [docs EXCEPT ![b] = IF r.ok /\ @ = 0 THEN 1 ELSE @]
        /\ docker' = [docker EXCEPT ![b] = r.c]
        /\ stops' = [stops EXCEPT ![b] = NoStops]
        /\ Return(w, <<IF StartResult(r.ok, ~cfgFile[b].webhook \/ Notified(hook))
                            THEN "start_ok"
                        ELSE IF r.ok THEN "notify_fail" ELSE d>>)
    /\ UNCHANGED <<now, mode, wbot, attempt, pcfg, pending, calls, cfgFile,
                   schedVars, parseVars, loopVars, notifyVars, listed>>

\* The CLI command has printed its result and the process exits.
Done(w) ==
    /\ pc[w] = "done"
    /\ pc' = [pc EXCEPT ![w] = "idle"]
    /\ mode' = [mode EXCEPT ![w] = "none"]
    /\ wbot' = [wbot EXCEPT ![w] = Idle]
    /\ ret' = [ret EXCEPT ![w] = "none"]
    /\ trace' = [trace EXCEPT ![w] = <<>>]
    /\ UNCHANGED <<bots, docker, now, attempt, pcfg, pending, waits, calls,
                   note, stops, cfgFile, docs,
                   schedVars, parseVars, loopVars, notifyVars, listed>>

\* ---------------------------------------------------- steps of the monitor
\* monitor.py lines 146-151 and 203-206 / 72-73: a sweep calls
\* _handle_bot_crash(b, config), which comes to its first iteration.
ProcEnter(w, b, config) ==
    /\ mode' = [mode EXCEPT ![w] = "proc"]
    /\ wbot' = [wbot EXCEPT ![w] = b]
    /\ pcfg' = [pcfg EXCEPT ![w] = config]
    /\ attempt' = [attempt EXCEPT ![w] = 0]
    /\ pc' = [pc EXCEPT ![w] = ProcFirst(MaxRetriesOf(config))]
    /\ note' = [note EXCEPT ![w] =
                   ProcNote(ProcFirst(MaxRetriesOf(config)), config)]

\* monitor.py lines 60-63: the health sweep wakes, finds self.running set
\* and reads the records whose status is running.
HealthBegin ==
    /\ LoopFree("health")
    /\ pc["health"] = "idle"
    /\ mrun
    /\ pc' = [pc EXCEPT !["health"] = "sweep"]
    /\ pending' = [pending EXCEPT !["health"] =
            [b \in {x \in DOMAIN bots : bots[x].status = "running"} |->
                bots[b].config]]
    /\ nap' = [nap EXCEPT !["health"] = "period"]
    /\ UNCHANGED <<bots, docker, now, mode, wbot, attempt, pcfg, ret, trace,
                   waits, calls, note, stops, cfgFile, docs,
                   schedVars, parseVars, mrun, sthread, notifyVars, listed>>

\* monitor.py lines 65-73: the next record of the list; its container is
\* checked now, its config is the one read with the list.
HealthNext(b, responsive) ==
    /\ LoopFree("health")
    /\ pc["health"] = "sweep"
    /\ b \in DOMAIN pending["health"]
    /\ pending' = [pending EXCEPT !["health"] = Without(@, b)]
    /\ IF ~IsContainerHealthy(docker[b], responsive)
          /\ RestartOnCrash(pending["health"][b])
        THEN ProcEnter("health", b, pending["health"][b])
        ELSE UNCHANGED <<mode, wbot, pcfg, attempt, pc, note>>
    /\ UNCHANGED <<bots, docker, now, ret, trace, waits, calls, stops, cfgFile, docs,
                   schedVars, parseVars, loopVars, notifyVars, listed>>

\* monitor.py lines 85-88: the crash sweep wakes and lists the t10_
\* containers; those not exited or dead it passes over (line 91).
CrashBegin ==
    /\ LoopFree("crash")
    /\ pc["crash"] = "idle"
    /\ mrun
    /\ pc' = [pc EXCEPT !["crash"] = "sweep"]
    /\ pending' = [pending EXCEPT !["crash"] =
            [b \in {x \in Bots : docker[x].status \in {"exited", "dead"}} |->
                docker[b]]]
    /\ nap' = [nap EXCEPT !["crash"] = "period"]
    /\ UNCHANGED <<bots, docker, now, mode, wbot, attempt, pcfg, ret, trace,
                   waits, calls, note, stops, cfgFile, docs,
                   schedVars, parseVars, mrun, sthread, notifyVars, listed>>

\* monitor.py lines 90-93 and 187-206: _handle_container_crash for the next
\* listed container.
CrashNext(b) ==
    /\ LoopFree("crash")
    /\ pc["crash"] = "sweep"
    /\ b \in DOMAIN pending["crash"]
    /\ pending' = [pending EXCEPT !["crash"] = Without(@, b)]
    /\ IF CrashApplies(bots, b)
        THEN /\ bots' = [bots EXCEPT ![b] =
                            CrashRecord(@, pending["crash"][b], now)]
             /\ stops' = [stops EXCEPT ![b] = NoStops]
             /\ IF RestartOnCrash(bots[b].config)
                    THEN ProcEnter("crash", b, bots[b].config)
                    ELSE UNCHANGED <<mode, wbot, pcfg, attempt, pc, note>>
        ELSE UNCHANGED <<bots, stops, mode, wbot, pcfg, attempt, pc, note>>
    /\ UNCHANGED <<docker, now, ret, trace, waits, calls, cfgFile, docs,
                   schedVars, parseVars, loopVars, notifyVars, listed>>

\* monitor.py lines 77-79 and 97-99: the except arm of a loop. It logs and
\* sleeps, and the loop goes round.
AfterSweepError_LoopEnds(w) == "exited"

AfterSweepError(w) == "idle"

\* monitor.py lines 62-63 and 85-88: the loop wakes, and the search of the
\* table or the listing of the containers raises; no bot is looked at, the
\* loop sleeps the longer time.
SweepFails(w) ==
    /\ LoopFree(w)
    /\ w \in Monitors
    /\ pc[w] = "idle"
    /\ mrun
    /\ pc' = [pc EXCEPT ![w] = AfterSweepError(w)]
    /\ nap' = [nap EXCEPT ![w] = "on_error"]
    /\ UNCHANGED <<bots, docker, now, mode, wbot, attempt, pcfg, pending, ret,
                   trace, waits, calls, note, stops, cfgFile, docs,
                   schedVars, parseVars, mrun, sthread, notifyVars, listed>>

\* monitor.py lines 75 and 95: the list is done, the sweep sleeps.
SweepEnd(w) ==
    /\ LoopFree(w)
    /\ w \in Monitors
    /\ pc[w] = "sweep"
    /\ DOMAIN pending[w] = {}
    /\ pc' = [pc EXCEPT ![w] = "idle"]
    /\ UNCHANGED <<bots, docker, now, mode, wbot, attempt, pcfg, pending, ret,
                   trace, waits, calls, note, stops, cfgFile, docs,
                   schedVars, parseVars, loopVars, notifyVars, listed>>

\* monitor.py lines 152-158 and runner.py 105-106: one iteration of the
\* loop builds a BotRunner and calls restart_bot, which stops the bot and
\* begins the settle sleep.
ProcAttempt(w, gw) ==
    /\ LoopFree(w)
    /\ pc[w] = "attempt"
    /\ DoStop(w, wbot[w], gw, FALSE)
    /\ calls' = [calls EXCEPT ![w] = @ + 1]
    /\ pc' = [pc EXCEPT ![w] = "settle"]
    /\ UNCHANGED <<now, mode, wbot, attempt, pcfg, pending, ret, waits, note,
                   cfgFile, docs,
                   schedVars, parseVars, loopVars, notifyVars, listed>>

\* monitor.py lines 155-156 and 174-175: BotRunner() raises (TinyDB cannot
\* open the file, docker.from_env() fails); the handler logs and the loop
\* goes on.
ProcRaise(w) ==
    /\ LoopFree(w)
    /\ pc[w] = "attempt"
    /\ LET at == ProcAfterRaise(attempt[w], MaxRetriesOf(pcfg[w])) IN
        /\ pc' = [pc EXCEPT ![w] = at]
        /\ attempt' = [attempt EXCEPT ![w] = IF at = "attempt" THEN @ + 1 ELSE @]
        /\ note' = [note EXCEPT ![w] = ProcNote(at, pcfg[w])]
    /\ UNCHANGED <<bots, docker, now, mode, wbot, pcfg, pending, ret, trace,
                   waits, calls, stops, cfgFile, docs,
                   schedVars, parseVars, loopVars, notifyVars, listed>>

\* monitor.py line 172: the backoff sleep is over, next iteration.
BackoffDone(w) ==
    /\ LoopFree(w)
    /\ pc[w] = "backoff"
    /\ pc' = [pc EXCEPT ![w] = "attempt"]
    /\ attempt' = [attempt EXCEPT ![w] = @ + 1]
    /\ UNCHANGED <<bots, docker, now, mode, wbot, pcfg, pending, ret, trace,
                   waits, calls, note, stops, cfgFile, docs,
                   schedVars, parseVars, loopVars, notifyVars, listed>>

\* monitor.py lines 169 and 185: _handle_bot_crash returns to the sweep.
ProcReturn(w) ==
    /\ LoopFree(w)
    /\ pc[w] \in {"restarted", "exhausted"}
    /\ pc' = [pc EXCEPT ![w] = "sweep"]
    /\ mode' = [mode EXCEPT ![w] = "none"]
    /\ wbot' = [wbot EXCEPT ![w] = Idle]
    /\ pcfg' = [pcfg EXCEPT ![w] = DefaultConfig]
    /\ attempt' = [attempt EXCEPT ![w] = 0]
    /\ ret' = [ret EXCEPT ![w] = "none"]
    /\ trace' = [trace EXCEPT ![w] = <<>>]
    /\ waits' = [waits EXCEPT ![w] = <<>>]
    /\ calls' = [calls EXCEPT ![w] = 0]
    /\ note' = [note EXCEPT ![w] = "none"]
    /\ UNCHANGED <<bots, docker, now, pending, stops, cfgFile, docs,
                   schedVars, parseVars, loopVars, notifyVars, listed>>

\* The cleanup taking every container that is down.
Cleanable_AnyDown(c) == c.status \in {"exited", "dead"}

\* monitor.py lines 105-111: the containers the cleanup lists and removes.
Cleanable(c) == c.status = "exited"

\* monitor.py lines 101-118: the cleanup sweep removes the exited t10_
\* containers; each remove may fail on its own.
Cleanup(removed) ==
    /\ \A w \in Monitors : AtAwait(w)
    /\ pc[Cleaner] = "idle"
    /\ mrun
    /\ removed # {}
    /\ removed \subseteq {b \in Bots : Cleanable(docker[b])}
    /\ docker' = [b \in Bots |-> IF b \in removed THEN NoContainer ELSE docker[b]]
    /\ UNCHANGED <<bots, now, pc, mode, wbot, attempt, pcfg, pending, ret,
                   trace, waits, calls, note, stops, cfgFile, docs,
                   schedVars, parseVars, loopVars, notifyVars, listed>>

\* ------------------------------------------------------------- shutdown
\* monitor.py lines 362-368, stop_monitoring(): the flag is cleared.
StopMonitoring ==
    /\ mrun
    /\ mrun' = FALSE
    /\ UNCHANGED <<bots, docker, now, pc, mode, wbot, attempt, pcfg, pending,
                   ret, trace, waits, calls, note, stops, cfgFile, docs,
                   schedVars, parseVars, sthread, nap, notifyVars, listed>>

\* monitor.py lines 60, 83 and 103: a loop wakes from its sleep, finds
\* self.running cleared and returns.
LoopExit(w) ==
    /\ w \in Loops
    /\ LoopFree(w)
    /\ pc[w] = "idle"
    /\ ~mrun
    /\ pc' = [pc EXCEPT ![w] = "exited"]
    /\ UNCHANGED <<bots, docker, now, mode, wbot, attempt, pcfg, pending,
                   ret, trace, waits, calls, note, stops, cfgFile, docs,
                   schedVars, parseVars, loopVars, notifyVars, listed>>

\* cli.py lines 233-237, Ctrl-C in `t10 monitor`: asyncio.run cancels the
\* task of start_monitoring and with it the three loops; each gets
\* CancelledError at the await it stands at, which no `except Exception`
\* of runner.py or monitor.py catches, and monitor.py lines 54-56 clear the
\* flag.
Interrupt ==
    /\ \A w \in Monitors : AtAwait(w)
    /\ \E w \in Loops : pc[w] # "exited"
    /\ pc' = [w \in Workers |-> IF w \in Loops THEN "exited" ELSE pc[w]]
    /\ mrun' = FALSE
    /\ UNCHANGED <<bots, docker, now, mode, wbot, attempt, pcfg, pending,
                   ret, trace, waits, calls, note, stops, cfgFile, docs,
                   schedVars, parseVars, sthread, nap, notifyVars, listed>>

\* scheduler.py lines 104-109, stop_scheduler(): the flag is cleared and
\* schedule.clear() drops every job.
StopScheduler ==
    /\ srun
    /\ srun' = FALSE
    /\ jobs' = <<>>
    /\ UNCHANGED <<bots, docker, now, pc, mode, wbot, attempt, pcfg, pending,
                   ret, trace, waits, calls, note, stops, cfgFile, docs,
                   rmdirs, schedules, sret, parseVars, loopVars, notifyVars,
                   listed>>

\* scheduler.py lines 113-116: a scheduler thread wakes from its sleep,
\* finds self.running cleared and ends.
SchedExit ==
    /\ sthread > 0
    /\ ~srun
    /\ pc[Scheduler] = "idle"
    /\ sthread' = sthread - 1
    /\ UNCHANGED <<bots, docker, now, pc, mode, wbot, attempt, pcfg, pending,
                   ret, trace, waits, calls, note, stops, cfgFile, docs,
                   schedVars, parseVars, mrun, nap, notifyVars, listed>>

\* ------------------------------------------------------ the specification
\* The environment, the CLI and the monitor acting on the bots B; the
\* containers end in the states Sts with the codes Codes, and the daemon, the
\* file system and the token check answer with the faults GW, SF and BF.
Exits(B, Sts, Codes) ==
    \E b \in B, st \in Sts, code \in Codes : ContainerExits(b, st, code)

CallerNext(B, GW, SF, BF) ==
    \/ \E b \in B, gw \in GW : CliStop(b, gw)
    \/ \E b \in B, f \in SF : CliStart(b, f)
    \/ \E w \in Callers, b \in B, gw \in GW : RestartBegin(w, b, gw)
    \/ \E w \in Callers, f \in SF : Settle(w, f)
    \/ \E w \in Callers, d \in BF : Build(w, d)
    \/ \E w \in Callers : Done(w)

MonitorNext(B, GW, SF, BF) ==
    \/ \E w \in Monitors, f \in SF : Settle(w, f)
    \/ \E w \in Monitors, d \in BF : Build(w, d)
    \/ HealthBegin
    \/ \E b \in B, responsive \in BOOLEAN : HealthNext(b, responsive)
    \/ CrashBegin
    \/ \E b \in B : CrashNext(b)
    \/ \E w \in Monitors : SweepEnd(w)
    \/ \E w \in Monitors, gw \in GW : ProcAttempt(w, gw)
    \/ \E w \in Monitors : BackoffDone(w)
    \/ \E w \in Monitors : ProcReturn(w)
    \/ \E removed \in SUBSET B : Cleanup(removed)

Raises == \E w \in Monitors : ProcRaise(w)

\* The whole manager: monitor and CLI over every bot.
Next ==
    \/ Tick
    \/ Exits(Bots, {"exited", "dead"}, ExitCodes)
    \/ CallerNext(Bots, StopFaults, StartFaults, BuildFaults)
    \/ MonitorNext(Bots, StopFaults, StartFaults, BuildFaults)
    \/ Raises

Spec == Init /\ [][Next]_vars

\* Only the bots B have a directory under bots/.
InitOnly(B) ==
    /\ Init
    /\ DOMAIN bots \subseteq B
    /\ \A b \in Bots \ B : cfgFile[b] = DefaultConfig

\* The CLI on one bot, no monitor running.
NextRunner ==
    \/ Tick
    \/ Exits({"alpha"}, {"exited", "dead"}, ExitCodes)
    \/ CallerNext({"alpha"}, StopFaults, StartFaults, BuildFaults)

SpecRunner == InitOnly({"alpha"}) /\ [][NextRunner]_vars

\* `t10 monitor` on one bot, no other command given.
NextProc ==
    \/ Tick
    \/ Exits({"alpha"}, {"exited", "dead"}, ExitCodes)
    \/ MonitorNext({"alpha"}, StopFaults, StartFaults, BuildFaults)
    \/ Raises

SpecProc == InitOnly({"alpha"}) /\ [][NextProc]_vars

\* `t10 monitor` on one bot and on a container of a name without record; the
\* daemon may fail to remove a container it has stopped, tokens may be
\* rejected.
NextSweep ==
    \/ Exits({"alpha"}, {"exited", "dead"}, ExitCodes)
    \/ \E st \in {"exited", "dead"} : StrayExits("beta", st, 1)
    \/ MonitorNext(Bots, {"none", "remove_fail"}, {"none", "bad_token"}, {"none"})

SpecSweep == InitOnly({"alpha"}) /\ [][NextSweep]_vars

\* `t10 start` and `t10 monitor` on one bot that has a webhook_url, with an
\* endpoint that may fail in every way; tokens may be rejected.
InitNotify ==
    /\ InitOnly({"alpha"})
    /\ cfgFile["alpha"] = DefaultConfig

NextNotify ==
    \/ \E h \in HookAnswers : HookChanges(h)
    \/ Exits({"alpha"}, {"exited"}, {1})
    \/ \E f \in {"none", "bad_token"} : CliStart("alpha", f)
    \/ Build("cli", "none")
    \/ Done("cli")
    \/ MonitorNext({"alpha"}, {"none"}, {"none", "bad_token"}, {"none"})

SpecNotify == InitNotify /\ [][NextNotify]_vars

\* `t10 monitor` on a fleet of two running bots with the same config.json,
\* a daemon that answers every call, and tokens that may be rejected.
InitFleet ==
    /\ Init
    /\ DOMAIN bots = Bots
    /\ cfgFile = [b \in Bots |-> TwoTryConfig]

NextFleet ==
    \/ Exits(Bots, {"exited"}, {1})
    \/ MonitorNext(Bots, {"none"}, {"none", "bad_token"}, {"none"})

SpecFleet == InitFleet /\ [][NextFleet]_vars

\* `t10 monitor` on the fleet with a daemon and a store that may fail: at
\* the listing of a sweep, at the lookup of a container, at the making of a
\* BotRunner; tokens may be rejected, and the container of alpha may end.
\* One step of the loop w:
LoopStep(w) ==
    \/ \E f \in {"none", "bad_token"} : Settle(w, f)
    \/ Build(w, "none")
    \/ w = "health" /\ HealthBegin
    \/ w = "health" /\ \E b \in Bots, responsive \in BOOLEAN :
                            HealthNext(b, responsive)
    \/ w = "crash" /\ CrashBegin
    \/ w = "crash" /\ \E b \in Bots : CrashNext(b)
    \/ SweepEnd(w)
    \/ \E gw \in {"none", "get_fail"} : ProcAttempt(w, gw)
    \/ BackoffDone(w)
    \/ ProcReturn(w)
    \/ ProcRaise(w)
    \/ SweepFails(w)

NextOutage ==
    \/ Exits({"alpha"}, {"exited"}, {1})
    \/ \E w \in Monitors : LoopStep(w)

\* The event loop of asyncio runs every coroutine that is ready, in the
\* order in which they became ready, and every sleep ends: a loop that can
\* step again and again does step.
SpecOutage ==
    /\ InitFleet
    /\ [][NextOutage]_vars
    /\ \A w \in Monitors : SF_vars(LoopStep(w))

\* A crash-restart procedure for bot b sleeps: in the settle delay of its
\* restart_bot or in its backoff.
ProcWaits(b) ==
    \E w \in Monitors :
        mode[w] = "proc" /\ wbot[w] = b /\ pc[w] \in {"settle", "backoff"}

\* The operator gives `t10 stop alpha` while the procedure for alpha sleeps.
StopWhileWaiting ==
    /\ ProcWaits("alpha")
    /\ CliStop("alpha", "none")

\* `t10 monitor` on one bot and an operator who stops it in such a sleep and
\* gives no other command; tokens may be rejected.
NextStopRace ==
    \/ Tick
    \/ Exits({"alpha"}, {"exited"}, {1})
    \/ MonitorNext({"alpha"}, {"none"}, {"none", "bad_token"}, {"none"})
    \/ StopWhileWaiting

InitStopRace ==
    /\ InitOnly({"alpha"})
    /\ cfgFile["alpha"] = TwoTryConfig

SpecStopRace == InitStopRace /\ [][NextStopRace]_vars

\* `t10 monitor` and the stop, start commands on one bot whose process never
\* ends by itself: a container that is down was stopped by stop_bot. The
\* daemon may fail to remove a container it has stopped.
NextStopSeen ==
    \/ Tick
    \/ MonitorNext({"alpha"}, {"none", "remove_fail"}, {"none"}, {"none"})
    \/ \E gw \in {"none", "remove_fail"} : CliStop("alpha", gw)
    \/ CliStart("alpha", "none")
    \/ Build("cli", "none")
    \/ Done("cli")

SpecStopSeen == InitStopRace /\ [][NextStopSeen]_vars

\* One step of the loop w of a monitor whose daemon and store answer every
\* call; tokens may be rejected.
SweepStep(w) ==
    \/ \E f \in {"none", "bad_token"} : Settle(w, f)
    \/ Build(w, "none")
    \/ w = "health" /\ HealthBegin
    \/ w = "health" /\ \E responsive \in BOOLEAN :
                            HealthNext("alpha", responsive)
    \/ w = "crash" /\ CrashBegin
    \/ w = "crash" /\ CrashNext("alpha")
    \/ SweepEnd(w)
    \/ ProcAttempt(w, "none")
    \/ BackoffDone(w)
    \/ ProcReturn(w)

CleanupStep == \E removed \in SUBSET {"alpha"} : Cleanup(removed)

\* `t10 monitor` on one bot, of any config.json, whose container may end;
\* the three loops wake in any order, and each of them does wake.
InitDown ==
    /\ InitOnly({"alpha"})
    /\ DOMAIN bots = {"alpha"}

NextDown ==
    \/ Exits({"alpha"}, {"exited", "dead"}, {1})
    \/ \E w \in Monitors : SweepStep(w)
    \/ CleanupStep

SpecDown ==
    /\ InitDown
    /\ [][NextDown]_vars
    /\ \A w \in Monitors : SF_vars(SweepStep(w))
    /\ SF_vars(CleanupStep)

\* ================================================================= claims
InRestart(w, b) == wbot[w] = b /\ pc[w] \in {"settle", "build", "backoff"}

\* C1: for every bot name at most one restart sequence (stop, settle delay,
\* start, the backoff sleeps of a crash-restart procedure included) is in
\* flight at any time, whichever trigger started it.
C1_OneRestartInFlight ==
    \A b \in Bots : Cardinality({w \in Workers : InRestart(w, b)}) <= 1

\* A bot stored as running whose container does not run, which is to be
\* restarted on a crash and which no sweep is handling.
NeedsRestart(b) ==
    /\ HasRecord(b)
    /\ bots[b].status = "running"
    /\ bots[b].config.restart_on_crash
    /\ docker[b].status # "running"
    /\ \A w \in Workers : wbot[w] # b

\* The health sweep is between two procedures; the crash sweep is, and the
\* container is one it lists.
HealthCanServe(b) == pc["health"] \in {"idle", "sweep"}

CrashCanServe(b) ==
    pc["crash"] \in {"idle", "sweep"} /\ docker[b].status \in {"exited", "dead"}

\* C2: while one bot's crash-restart procedure sleeps in backoff, every other
\* bot that needs a restart has a sweep free to give it one: it does not
\* wait for the first bot's retry sequence to end.
C2_OthersServedDuringBackoff ==
    \A w \in Monitors :
        pc[w] = "backoff" =>
            \A b \in Bots \ {wbot[w]} :
                NeedsRestart(b) => HealthCanServe(b) \/ CrashCanServe(b)

\* C3: a crash-restart procedure whose max_retries calls of restart_bot have
\* all returned failure has sent the terminal notification (when a webhook
\* is configured) and the stored status is crashed.
C3_ExhaustedLeavesCrashed ==
    \A w \in Monitors :
        (pc[w] = "exhausted" /\ calls[w] > 0
                /\ calls[w] = MaxRetriesOf(pcfg[w])) =>
            /\ StatusOf(wbot[w]) = "crashed"
            /\ pcfg[w].webhook => note[w] = "exhausted"

\* C4: one crash-restart procedure calls restart_bot at most max_retries
\* times (3 when the config gives none), and once a call has returned
\* success the procedure has ended.
C4_RetryBudget ==
    \A w \in Monitors :
        /\ calls[w] <= (IF pcfg[w].max_retries = None THEN 3
                        ELSE pcfg[w].max_retries)
        /\ ret[w] = "ok" => pc[w] = "restarted"

C4_Witness ==
    \E w \in Monitors :
        /\ pc[w] = "exhausted"
        /\ pcfg[w].max_retries = 2
        /\ calls[w] = 2
        /\ ret[w] = "fail"

\* C5: in a crash-restart procedure every failed attempt k but the last is
\* followed by a sleep of retry_delay * 2^k (60 when the config gives no
\* retry_delay), and nothing else is slept: at iteration k the sleeps so far
\* are those after attempts 0 .. k-1.
C5_BackoffSchedule ==
    \A w \in Monitors :
        mode[w] = "proc" =>
            LET d == IF pcfg[w].retry_delay = None THEN 60 ELSE pcfg[w].retry_delay
                n == IF pc[w] = "backoff" THEN attempt[w] + 1 ELSE attempt[w]
            IN waits[w] = [i \in 1..n |-> d * Pow2(i - 1)]

\* C6: when the crash sweep has entered the crash-restart procedure for a
\* container it found exited or dead, and has not yet called restart_bot,
\* the record says crashed with the exit code Docker reports and crashed_at.
C6_CrashedBeforeRestart ==
    (mode["crash"] = "proc" /\ calls["crash"] = 0 /\ pc["crash"] = "attempt") =>
        LET b == wbot["crash"] IN
        /\ HasRecord(b)
        /\ bots[b].status = "crashed"
        /\ docker[b].status \in {"exited", "dead"}
        /\ bots[b].exit_code = docker[b].exit_code
        /\ bots[b].crashed_at \in 0..now

C6_Witness ==
    /\ mode["crash"] = "proc"
    /\ calls["crash"] = 1
    /\ pc["crash"] = "settle"
    /\ bots[wbot["crash"]].exit_code = 137
    /\ bots[wbot["crash"]].crashed_at = 1

\* C7: `stop` called twice in a row on a bot that has a record: after a call
\* that returned success the status is stopped and no container is left, so
\* the next call finds none (NotFound) unless the daemon does not answer,
\* and a call that found none returns success.
C7_StopIdempotent ==
    \A b \in DOMAIN bots :
        /\ stops[b].last \in {"ok", "nf"} =>
                bots[b].status = "stopped" /\ docker[b] = NoContainer
        /\ stops[b].prev => stops[b].last \in {"nf", "get_fail"}
        /\ (stops[b].last = "nf" /\ pc["cli"] = "done" /\ wbot["cli"] = b) =>
                ret["cli"] = "ok"

C7_Witness ==
    /\ HasRecord("alpha")
    /\ stops["alpha"] = [prev |-> TRUE, last |-> "nf"]
    /\ pc["cli"] = "done"
    /\ ret["cli"] = "ok"
    /\ bots["alpha"].status = "stopped"

\* C8: every `stop` of a bot that has a record ends with the status stopped
\* and stopped_at the time of the call, also when the daemon fails.
C8_StopAlwaysRecorded ==
    [][(pc["cli"] = "idle" /\ pc'["cli"] = "done" /\ mode'["cli"] = "stop"
            /\ HasRecord(wbot'["cli"]))
        => /\ bots'[wbot'["cli"]].status = "stopped"
           /\ bots'[wbot'["cli"]].stopped_at = now]_vars

StopEvents == {"stop_ok", "stop_fail"}

\* C9: restart is stop, then the settle delay, then start, in that order,
\* start is called also after a stop that failed, and restart returns what
\* that start returned.
C9_RestartOrder ==
    mode["cli"] = "restart" =>
        LET t == trace["cli"] IN
        /\ pc["cli"] = "settle" => Len(t) = 1 /\ t[1] \in StopEvents
        /\ pc["cli"] = "build" =>
                Len(t) = 2 /\ t[1] \in StopEvents /\ t[2] = "settle"
        /\ pc["cli"] = "done" =>
                /\ Len(t) = 3 /\ t[1] \in StopEvents /\ t[2] = "settle"
                /\ ret["cli"] = "ok" <=> t[3] = "start_ok"

C9_Witness ==
    /\ mode["cli"] = "restart"
    /\ pc["cli"] = "done"
    /\ trace["cli"] = <<"stop_fail", "settle", "start_ok">>
    /\ ret["cli"] = "ok"

\* C10: a start that fails returns failure, leaves the table as it was and
\* leaves no container running that was not running before.
C10_FailedStartChangesNothing ==
    [][(pc["cli"] \in {"idle", "settle", "build"} /\ pc'["cli"] = "done"
            /\ mode'["cli"] \in {"start", "restart"}
            /\ trace'["cli"][Len(trace'["cli"])] # "start_ok")
        => /\ ret'["cli"] = "fail"
           /\ bots' = bots
           /\ \A b \in Bots :
                docker'[b].status = "running" => docker[b].status = "running"]_vars

C10_Witness ==
    /\ pc["cli"] = "done"
    /\ mode["cli"] = "start"
    /\ trace["cli"] = <<"run_fail">>
    /\ ret["cli"] = "fail"
    /\ docker["alpha"] = CreatedContainer
    /\ StatusOf("alpha") = "stopped"

\* ------------------------------------------ two terminals, one bot name
\* cli.py `t10 start <bot>` in terminal w: start_bot up to the token check.
StartBegin(w, b, f) ==
    /\ w \in Starters
    /\ pc[w] = "idle"
    /\ mode' = [mode EXCEPT ![w] = "start"]
    /\ wbot' = [wbot EXCEPT ![w] = b]
    /\ Precheck(w, b, f, <<>>)
    /\ UNCHANGED <<bots, docker, now, attempt, pcfg, pending, calls, cfgFile,
                   docs, schedVars, parseVars, loopVars, notifyVars, listed>>

\* runner.py lines 59-62 and 219-220 in the process of terminal w: the
\* container is built and run against daemon answer d and, when that
\* succeeded, _update_bot_record searches the table for the name.  Another
\* process may write the table before this one does.
BuildSearch(w, d) ==
    /\ w \in Starters
    /\ pc[w] = "build"
    /\ LET b == wbot[w]
           r == StartDockerContainer(docker[b], d)
       IN
        /\ docker' = [docker EXCEPT ![b] = r.c]
        /\ stops' = [stops EXCEPT ![b] = NoStops]
        /\ IF r.ok
            THEN /\ pc' = [pc EXCEPT ![w] =
                            IF docs[b] > 0 THEN "update" ELSE "insert"]
                 /\ UNCHANGED <<ret, trace, waits, note>>
            ELSE Return(w, <<d>>)
    /\ UNCHANGED <<bots, now, mode, wbot, attempt, pcfg, pending, calls,
                   cfgFile, docs, schedVars, parseVars, loopVars, notifyVars, listed>>

\* runner.py lines 220-223 and 63-72: the branch the search chose runs,
\* update() on the documents of that name or insert() of a new document,
\* and start_bot returns True.
RecordWrite(w) ==
    /\ w \in Starters
    /\ pc[w] \in {"update", "insert"}
    /\ LET b == wbot[w]
           rec == RunningRecord(bots, b, cfgFile[b], now)
       IN
        /\ bots' = IF pc[w] = "insert" /\ b \in DOMAIN bots THEN bots
                   ELSE IF pc[w] = "update" /\ b \notin DOMAIN bots THEN bots
                   ELSE Put(bots, b, rec)
        /\ docs' = [docs EXCEPT ![b] = IF pc[w] = "insert" THEN @ + 1 ELSE @]
    /\ Return(w, <<"start_ok">>)
    /\ UNCHANGED <<docker, now, mode, wbot, attempt, pcfg, pending, calls,
                   stops, cfgFile, schedVars, parseVars, loopVars, notifyVars, listed>>

\* `t10 start alpha` typed in two terminals, `t10 stop alpha` in the first,
\* a daemon that answers every call.
NextStarts ==
    \/ Exits({"alpha"}, {"exited"}, {1})
    \/ \E w \in Starters, f \in {"none", "bad_token"} : StartBegin(w, "alpha", f)
    \/ \E w \in Starters, d \in {"none", "run_fail"} : BuildSearch(w, d)
    \/ \E w \in Starters : RecordWrite(w)
    \/ \E w \in Starters : Done(w)
    \/ CliStop("alpha", "none")

SpecStarts == InitOnly({"alpha"}) /\ [][NextStarts]_vars

\* runner.py lines 80-88 in the process of terminal w, `t10 stop <bot>`: the
\* calls to the daemon.  When they raised, stop_bot returns False (lines
\* 99-101); else the table is written next, and another process may run
\* before that.
StopGateway(w, b, gw) ==
    /\ w \in Starters
    /\ pc[w] = "idle"
    /\ LET r == StopContainer(docker[b], gw) IN
        /\ docker' = [docker EXCEPT ![b] = r.c]
        /\ pc' = [pc EXCEPT ![w] = IF r.reached THEN "stop_write" ELSE "done"]
        /\ ret' = [ret EXCEPT ![w] = IF r.reached THEN @ ELSE "fail"]
        /\ trace' = [trace EXCEPT ![w] =
                        IF r.reached THEN @ ELSE <<"stop_fail">>]
    /\ mode' = [mode EXCEPT ![w] = "stop"]
    /\ wbot' = [wbot EXCEPT ![w] = b]
    /\ UNCHANGED <<bots, now, attempt, pcfg, pending, waits, calls, note,
                   stops, cfgFile, docs, schedVars, parseVars, loopVars,
                   notifyVars, listed>>

\* runner.py lines 90-96: the update of the table, and stop_bot returns
\* True.
StopWrite(w) ==
    /\ w \in Starters
    /\ pc[w] = "stop_write"
    /\ bots' = StopTable(bots, wbot[w], now)
    /\ pc' = [pc EXCEPT ![w] = "done"]
    /\ ret' = [ret EXCEPT ![w] = "ok"]
    /\ trace' = [trace EXCEPT ![w] = <<"stop_ok">>]
    /\ stops' = [stops EXCEPT ![wbot[w]] = NoStops]
    /\ UNCHANGED <<docker, now, mode, wbot, attempt, pcfg, pending, waits,
                   calls, note, cfgFile, docs, schedVars, parseVars, loopVars,
                   notifyVars, listed>>

\* `t10 stop alpha` in one terminal and `t10 start alpha` in another, each
\* a process of its own; the container may end, tokens may be rejected.
NextStopStart ==
    \/ Tick
    \/ Exits({"alpha"}, {"exited"}, {1})
    \/ \E gw \in {"none", "stop_fail"} : StopGateway("cli", "alpha", gw)
    \/ StopWrite("cli")
    \/ \E f \in {"none", "bad_token"} : StartBegin("cli2", "alpha", f)
    \/ \E d \in {"none", "run_fail"} : BuildSearch("cli2", d)
    \/ RecordWrite("cli2")
    \/ \E w \in Starters : Done(w)

SpecStopStart == InitOnly({"alpha"}) /\ [][NextStopStart]_vars

\* ------------------------------------------------ steps of the scheduler
\* The texts given to add_schedule.
ScheduleTexts ==
    {<<"2", "h">>, <<"2", ".", "5", "h">>, <<"3", "0", "m">>, <<"1", "d">>,
     <<"0", "m">>, <<"0", ".", "5", "m">>, <<"-", "1", "h">>, <<"a">>}

\* scheduler.py lines 93-102, start_scheduler(): nothing when the flag is
\* set, else one more thread that runs _run_scheduler.
StartScheduler(running, threads) ==
    IF running THEN threads ELSE threads + 1

\* scheduler.py lines 20-55, add_schedule(b, t), called by the thread that
\* owns the BotScheduler.
AddSchedule(b, t) ==
    LET interval == ParseScheduleTime(t) IN
    /\ pc["cli"] = "idle"
    /\ srun \/ sthread < MaxThreads
    /\ text' = t
    /\ parsed' = interval
    /\ IF Rejected(interval)
        THEN /\ sret' = "fail"
             /\ UNCHANGED <<schedules, jobs, srun, sthread>>
        ELSE /\ schedules' = Upsert(schedules, b,
                                    ScheduleRecord(b, t, interval, now))
             /\ jobs' = SetupSchedule(jobs, b, interval)
             /\ srun' = TRUE
             /\ sthread' = StartScheduler(srun, sthread)
             /\ sret' = "ok"
    /\ pc' = [pc EXCEPT !["cli"] = "done"]
    /\ mode' = [mode EXCEPT !["cli"] = "schedule"]
    /\ wbot' = [wbot EXCEPT !["cli"] = b]
    /\ UNCHANGED <<bots, docker, now, attempt, pcfg, pending, ret, trace, waits,
                   calls, note, stops, cfgFile, docs, rmdirs, mrun, nap,
                   notifyVars, listed>>

\* scheduler.py lines 57-74, remove_schedule(b).
RemoveSchedule(b) ==
    LET r == RemoveScheduleOf(schedules, jobs, b) IN
    /\ pc["cli"] = "idle"
    /\ schedules' = r.schedules
    /\ jobs' = r.jobs
    /\ sret' = IF r.ok THEN "ok" ELSE "fail"
    /\ pc' = [pc EXCEPT !["cli"] = "done"]
    /\ mode' = [mode EXCEPT !["cli"] = "unschedule"]
    /\ wbot' = [wbot EXCEPT !["cli"] = b]
    /\ UNCHANGED <<bots, docker, now, attempt, pcfg, pending, ret, trace, waits,
                   calls, note, stops, cfgFile, docs, rmdirs, srun, parseVars, loopVars, notifyVars, listed>>

\* scheduler.py lines 138-158, _restart_bot(b) run by thread w: last_run is
\* written, then restart_bot stops the bot and begins the settle sleep.
RunJob(w, b, gw) ==
    /\ pc[w] = "idle"
    /\ schedules' = TouchLastRun(schedules, b, now)
    /\ DoStop(w, b, gw, FALSE)
    /\ pc' = [pc EXCEPT ![w] = "settle"]
    /\ mode' = [mode EXCEPT ![w] = "restart"]
    /\ wbot' = [wbot EXCEPT ![w] = b]
    /\ UNCHANGED <<now, attempt, pcfg, pending, ret, waits, calls, note,
                   cfgFile, docs, rmdirs, srun, parseVars, loopVars, notifyVars, listed>>

\* The clock of the schedule module: the period of the job of b has passed
\* since the job was installed or last run.  The job the scheduler thread is
\* running gets its next time when the run is over.
Elapse(b) ==
    /\ \E i \in 1..Len(jobs) : jobs[i].tag = b /\ ~jobs[i].due
    /\ ~(pc[Scheduler] # "idle" /\ wbot[Scheduler] = b)
    /\ jobs' = [i \in 1..Len(jobs) |->
                    IF jobs[i].tag = b THEN [jobs[i] EXCEPT !.due = TRUE]
                    ELSE jobs[i]]
    /\ UNCHANGED <<bots, docker, now, pc, mode, wbot, attempt, pcfg, pending,
                   ret, trace, waits, calls, note, stops, cfgFile, docs,
                   rmdirs, schedules, srun, sret, parseVars, loopVars, notifyVars, listed>>

\* scheduler.py lines 112-119: the scheduler thread wakes, run_pending finds
\* the job of b due and runs it.
SchedFire(b, gw) ==
    /\ srun
    /\ sthread > 0
    /\ \E i \in 1..Len(jobs) : jobs[i].tag = b /\ jobs[i].due
    /\ RunJob(Scheduler, b, gw)
    /\ jobs' = AfterRun(jobs, b)
    /\ UNCHANGED sret

\* force_run_schedule without the lookup of the schedule.
ForceRun_NoLookup(b, gw) ==
    RunJob("cli", b, gw) /\ sret' = "ok" /\ UNCHANGED jobs

\* scheduler.py lines 247-262, force_run_schedule(b): False when b has no
\* schedule, else _restart_bot(b) in the caller's thread and True.
ForceRun(b, gw) ==
    IF HasSchedule(schedules, b)
        THEN RunJob("cli", b, gw) /\ sret' = "ok" /\ UNCHANGED jobs
        ELSE /\ pc["cli"] = "idle"
             /\ sret' = "fail"
             /\ pc' = [pc EXCEPT !["cli"] = "done"]
             /\ mode' = [mode EXCEPT !["cli"] = "force"]
             /\ wbot' = [wbot EXCEPT !["cli"] = b]
             /\ UNCHANGED <<bots, docker, now, attempt, pcfg, pending, ret,
                            trace, waits, calls, note, stops, cfgFile, docs,
                            rmdirs, schedules, jobs, srun, parseVars, loopVars, notifyVars, listed>>

\* cli.py lines 214-223, `t10 remove <bot>`: stop_bot, then the directory
\* bots/<bot> is deleted.
CliRemove(b, gw) ==
    /\ pc["cli"] = "idle"
    /\ DoStop("cli", b, gw, FALSE)
    /\ rmdirs' = rmdirs \cup {b}
    /\ pc' = [pc EXCEPT !["cli"] = "done"]
    /\ mode' = [mode EXCEPT !["cli"] = "remove"]
    /\ wbot' = [wbot EXCEPT !["cli"] = b]
    /\ UNCHANGED <<now, attempt, pcfg, pending, ret, waits, calls, note,
                   cfgFile, docs, schedules, jobs, srun, sret, parseVars, loopVars, notifyVars, listed>>

\* add_schedule, remove_schedule and the triggers on two bots that stay
\* stopped or running as they are: a daemon that answers every call, tokens
\* that are rejected.
NextSchedule ==
    \/ \E b \in Bots, t \in ScheduleTexts : AddSchedule(b, t)
    \/ \E b \in Bots : RemoveSchedule(b)
    \/ \E b \in Bots : Elapse(b)
    \/ \E b \in Bots : SchedFire(b, "none")
    \/ Settle(Scheduler, "bad_token")
    \/ \E w \in {"cli", Scheduler} : Done(w)

InitSchedule ==
    /\ Init
    /\ DOMAIN bots = {}
    /\ cfgFile = [b \in Bots |-> DefaultConfig]

SpecSchedule == InitSchedule /\ [][NextSchedule]_vars

\* `t10 remove alpha` beside a scheduler that holds schedules of both bots:
\* the triggers fire, force_run_schedule is called, the daemon may fail to
\* stop a container and to run one.  Both bots have their directory and
\* their files until the remove takes alpha's away.
NextOrphan ==
    \/ \E b \in Bots : AddSchedule(b, <<"2", "h">>)
    \/ \E gw \in {"none", "stop_fail"} : CliRemove("alpha", gw)
    \/ \E b \in Bots : Elapse(b)
    \/ \E b \in Bots : SchedFire(b, "none")
    \/ ForceRun("alpha", "none")
    \/ \E w \in {"cli", Scheduler} :
            Settle(w, IF wbot[w] \in rmdirs THEN "no_dir" ELSE "none")
    \/ \E w \in {"cli", Scheduler}, d \in {"none", "run_fail"} : Build(w, d)
    \/ \E w \in {"cli", Scheduler} : Done(w)

InitOrphan ==
    /\ Init
    /\ cfgFile = [b \in Bots |-> DefaultConfig]

SpecOrphan == InitOrphan /\ [][NextOrphan]_vars

\* force_run_schedule beside the scheduler thread: one bot with a schedule,
\* one without, a daemon that may fail to stop and to run a container,
\* tokens that may be rejected.
NextForce ==
    \/ Tick
    \/ AddSchedule("alpha", <<"2", "h">>)
    \/ \E b \in Bots, gw \in {"none", "stop_fail"} : ForceRun(b, gw)
    \/ Elapse("alpha")
    \/ SchedFire("alpha", "none")
    \/ \E w \in {"cli", Scheduler}, f \in {"none", "bad_token"} : Settle(w, f)
    \/ \E w \in {"cli", Scheduler}, d \in {"none", "run_fail"} : Build(w, d)
    \/ \E w \in {"cli", Scheduler} : Done(w)

SpecForce == InitOnly({"alpha"}) /\ [][NextForce]_vars

\* `t10 monitor` and a scheduler on one bot, stopped by stop_monitoring and
\* stop_scheduler or by Ctrl-C; tokens may be rejected.
InitShutdown ==
    /\ InitOnly({"alpha"})
    /\ cfgFile["alpha"] = TwoTryConfig

NextShutdown ==
    \/ Exits({"alpha"}, {"exited", "dead"}, {1})
    \/ MonitorNext({"alpha"}, {"none"}, {"none", "bad_token"}, {"none"})
    \/ StopMonitoring
    \/ \E w \in Loops : LoopExit(w)
    \/ Interrupt
    \/ AddSchedule("alpha", <<"2", "h">>)
    \/ Done("cli")
    \/ Elapse("alpha")
    \/ SchedFire("alpha", "none")
    \/ \E f \in {"none", "bad_token"} : Settle(Scheduler, f)
    \/ Build(Scheduler, "none")
    \/ Done(Scheduler)
    \/ StopScheduler
    \/ SchedExit

SpecShutdown == InitShutdown /\ [][NextShutdown]_vars

\* One BotScheduler whose owner adds and removes schedules of two bots and
\* stops the scheduler in between.
NextReschedule ==
    \/ Tick
    \/ \E b \in Bots, t \in {<<"2", "h">>, <<"3", "0", "m">>} : AddSchedule(b, t)
    \/ \E b \in Bots : RemoveSchedule(b)
    \/ Done("cli")
    \/ StopScheduler
    \/ SchedExit

SpecReschedule == InitOnly({"alpha"}) /\ [][NextReschedule]_vars

\* ------------------------------------------------------- the notifier
\* datetime.now() moves on.
ClockTick ==
    /\ clock < MaxClock
    /\ clock' = clock + 1
    /\ UNCHANGED <<bots, docker, now, pc, mode, wbot, attempt, pcfg, pending,
                   ret, trace, waits, calls, note, stops, cfgFile, docs,
                   schedVars, parseVars, loopVars, hook, rate_limits,
                   lastPost, retryUntil, listed>>

\* webhook.py lines 16-54, send_notification(u, ...) on one notifier: it
\* returns at the rate limit check, or posts and gets answer a, which
\* carries retry-after r when it is a 429.
Notify(u, a, r) ==
    /\ a = "limited" \/ r = None
    /\ IF IsRateLimited(rate_limits, u, clock)
        THEN UNCHANGED <<rate_limits, lastPost, retryUntil>>
        ELSE /\ rate_limits' = AfterAnswer(rate_limits, u, a, r, clock)
             /\ lastPost' = [lastPost EXCEPT ![u] = clock]
             /\ retryUntil' = [retryUntil EXCEPT ![u] =
                    IF a = "limited" /\ r # None THEN clock + r ELSE @]
    /\ UNCHANGED <<bots, docker, now, pc, mode, wbot, attempt, pcfg, pending,
                   ret, trace, waits, calls, note, stops, cfgFile, docs,
                   schedVars, parseVars, loopVars, hook, clock, listed>>

\* One notifier, two endpoints, every answer.
NextLimit ==
    \/ ClockTick
    \/ \E u \in Endpoints, a \in HookAnswers, r \in RetryAfters : Notify(u, a, r)

InitLimit ==
    /\ Init
    /\ DOMAIN bots = {}
    /\ cfgFile = [b \in Bots |-> DefaultConfig]

SpecLimit == InitLimit /\ [][NextLimit]_vars

\* ------------------------------------------------- reading the tables
\* What a caller gets back: whether the value says that the call failed,
\* and how many items it lists.  readable tells whether TinyDB could read
\* its file during the call.
Output(op, error, count, readable) ==
    [op |-> op, value |-> [error |-> error, count |-> count],
     readable |-> readable]

\* runner.py lines 112-126, list_bots: one item per document, or [] when
\* bots_table.all() raises.
ListBots(readable) ==
    /\ pc["cli"] = "idle"
    /\ listed' = Output("list_bots", FALSE,
                        IF readable THEN Cardinality(DOMAIN bots) ELSE 0,
                        readable)
    /\ UNCHANGED <<bots, docker, now, pc, mode, wbot, attempt, pcfg, pending,
                   ret, trace, waits, calls, note, stops, cfgFile, docs,
                   schedVars, parseVars, loopVars, notifyVars>>

\* scheduler.py lines 76-91, list_schedules: one item per document, or []
\* when schedules_table.all() raises.
ListSchedules(readable) ==
    /\ pc["cli"] = "idle"
    /\ listed' = Output("list_schedules", FALSE,
                        IF readable THEN Len(schedules) ELSE 0, readable)
    /\ UNCHANGED <<bots, docker, now, pc, mode, wbot, attempt, pcfg, pending,
                   ret, trace, waits, calls, note, stops, cfgFile, docs,
                   schedVars, parseVars, loopVars, notifyVars>>

\* runner.py lines 237-255, health_check: 'healthy' with the number of
\* documents, or 'unhealthy' with the error when bots_table.all() raises.
HealthCheck(readable) ==
    /\ pc["cli"] = "idle"
    /\ listed' = Output("health_check", ~readable,
                        IF readable THEN Cardinality(DOMAIN bots) ELSE 0,
                        readable)
    /\ UNCHANGED <<bots, docker, now, pc, mode, wbot, attempt, pcfg, pending,
                   ret, trace, waits, calls, note, stops, cfgFile, docs,
                   schedVars, parseVars, loopVars, notifyVars>>

\* `t10 status` and the other readers between starts, stops and
\* add_schedule calls on one bot; the file of the tables may be unreadable
\* during a call.
NextList ==
    \/ CallerNext({"alpha"}, {"none"}, {"none"}, {"none"})
    \/ \E t \in {<<"2", "h">>, <<"3", "0", "m">>} : AddSchedule("alpha", t)
    \/ \E readable \in BOOLEAN : ListBots(readable)
    \/ \E readable \in BOOLEAN : ListSchedules(readable)
    \/ \E readable \in BOOLEAN : HealthCheck(readable)

SpecList == InitOnly({"alpha"}) /\ [][NextList]_vars

\* ------------------------------------------- the parser on its own
\* _parse_schedule_time(text) is called.
ParseText ==
    /\ parsed = NotYet
    /\ parsed' = ParseScheduleTime(text)
    /\ UNCHANGED <<bots, docker, now, pc, mode, wbot, attempt, pcfg, pending,
                   ret, trace, waits, calls, note, stops, cfgFile, docs,
                   schedVars, text, loopVars, notifyVars, listed>>

InitParse ==
    /\ InitCore
    /\ DOMAIN bots = {}
    /\ cfgFile = [b \in Bots |-> DefaultConfig]
    /\ text \in Texts

SpecParse == InitParse /\ [][ParseText]_vars

\* C11: every record has started_at set exactly when its status is running
\* or starting; a stopped or crashed record has none.
C11_StartedAtIffRunning ==
    \A b \in DOMAIN bots :
        bots[b].started_at # None <=> bots[b].status \in {"running", "starting"}

\* The edges of the per-bot state machine between stored statuses.
Edges ==
    {<<"stopped", "starting">>, <<"starting", "running">>,
     <<"running", "stopped">>, <<"running", "crashed">>,
     <<"crashed", "restarting">>, <<"restarting", "running">>,
     <<"restarting", "crashed">>}

\* C12: every change of the stored status of a record that stays in the
\* table is an edge of the per-bot state machine.
C12_StatusEdges ==
    [][\A b \in DOMAIN bots \cap DOMAIN bots' :
        bots'[b].status # bots[b].status
            => <<bots[b].status, bots'[b].status>> \in Edges]_vars

\* C13: the table 'bots' holds at most one document per bot name, whatever
\* starts and stops of that name interleave.
C13_OneRecordPerName == \A b \in Bots : docs[b] <= 1

\* What the interval grammar gives for a text: minutes as the floor of the
\* exact product, invalid for a text of another shape.
GrammarMinutes(t) ==
    LET s == Strip(Lower(t)) IN
    IF ~Matches(s) THEN None
    ELSE LET v == Decimal(SubSeq(s, 1, Len(s) - 1)) IN
         (v.n * UnitMinutes(s[Len(s)])) \div Pow10(v.k)

\* A result of zero minutes and invalid are one outcome: no interval.
NoIntervalAsNone(r) == IF r = 0 THEN None ELSE r

\* C16: _parse_schedule_time gives floor(value) for m, floor(value * 60) for
\* h and floor(value * 1440) for d on a text <number>[.<number>]<unit>, and
\* no interval for every other text and for a value of zero.
C16_ParseInterval ==
    parsed # NotYet =>
        NoIntervalAsNone(parsed) = NoIntervalAsNone(GrammarMinutes(text))

\* add_schedule has just returned to its caller.
AddReturned == pc["cli"] = "done" /\ mode["cli"] = "schedule"

RecordsOf(b) == {i \in 1..Len(schedules) : schedules[i].bot_name = b}

JobsOf(b) == {j \in 1..Len(jobs) : jobs[j].tag = b}

\* C18: per bot name there is at most one ScheduleRecord and at most one
\* installed trigger, the trigger's period is the record's interval, and
\* after a successful add_schedule the record is the one of that call.
C18_OneScheduleLastWins ==
    /\ \A b \in Bots :
        /\ Cardinality(RecordsOf(b)) <= 1
        /\ Cardinality(JobsOf(b)) <= 1
        /\ \A i \in RecordsOf(b), j \in JobsOf(b) :
                jobs[j].period = schedules[i].interval_minutes
    /\ (AddReturned /\ sret = "ok") =>
            \A i \in RecordsOf(wbot["cli"]) :
                /\ schedules[i].schedule_time = text
                /\ schedules[i].interval_minutes = parsed

\* C19: after an add_schedule that accepted its text, the period of the
\* trigger installed for the bot is the interval_minutes of the call.
C19_TriggerPeriodIsInterval ==
    (AddReturned /\ sret = "ok") =>
        /\ JobsOf(wbot["cli"]) # {}
        /\ \A j \in JobsOf(wbot["cli"]) : jobs[j].period = parsed

\* C20: remove_schedule(name) returns true exactly when a record of the name
\* existed; after it the table has no record and the schedule module no job
\* of the name, the records and jobs of the other bots are as before; and a
\* trigger fires only for a bot that has a ScheduleRecord.
C20_RemoveSchedule ==
    [][/\ (pc["cli"] = "idle" /\ pc'["cli"] = "done"
                /\ mode'["cli"] = "unschedule") =>
            LET b == wbot'["cli"] IN
            /\ sret' = "ok" <=> HasSchedule(schedules, b)
            /\ ~HasSchedule(schedules', b)
            /\ \A j \in 1..Len(jobs') : jobs'[j].tag # b
            /\ \A c \in Bots \ {b} :
                /\ SelectSeq(schedules', LAMBDA r : r.bot_name = c)
                        = SelectSeq(schedules, LAMBDA r : r.bot_name = c)
                /\ SelectSeq(jobs', LAMBDA j : j.tag = c)
                        = SelectSeq(jobs, LAMBDA j : j.tag = c)
       /\ (pc[Scheduler] = "idle" /\ pc'[Scheduler] = "settle") =>
            HasSchedule(schedules, wbot'[Scheduler])]_vars

C20_Witness ==
    /\ pc["cli"] = "done"
    /\ mode["cli"] = "unschedule"
    /\ sret = "ok"
    /\ ~HasSchedule(schedules, wbot["cli"])
    /\ Len(schedules) = 1
    /\ Len(jobs) = 1
    /\ jobs[1].tag # wbot["cli"]

\* C14: once `t10 remove <bot>` has returned, the table 'bots' holds no
\* record of that name.
C14_RemoveDeletesRecord ==
    (pc["cli"] = "done" /\ mode["cli"] = "remove") => ~HasRecord(wbot["cli"])

ForceCalled ==
    /\ pc["cli"] = "idle"
    /\ pc'["cli"] # "idle"
    /\ mode'["cli"] \in {"force", "restart"}

\* C21: force_run_schedule for a name that has no ScheduleRecord returns
\* False, calls neither stop_bot nor start_bot and leaves both tables, the
\* containers and the jobs as they are.
C21_ForceRunWithoutSchedule ==
    [][(ForceCalled /\ ~HasSchedule(schedules, wbot'["cli"]))
        => /\ sret' = "fail"
           /\ pc'["cli"] = "done"
           /\ trace'["cli"] = <<>>
           /\ bots' = bots
           /\ docker' = docker
           /\ schedules' = schedules
           /\ jobs' = jobs]_vars

C21_Witness ==
    /\ pc["cli"] = "done"
    /\ mode["cli"] = "force"
    /\ wbot["cli"] = "beta"
    /\ sret = "fail"
    /\ HasSchedule(schedules, "alpha")
    /\ StatusOf("alpha") = "running"

\* C22: force_run_schedule for a name that has a ScheduleRecord writes
\* last_run = now into that record and begins a restart of the bot in the
\* same call, whether or not the job of the bot is due; the restart is one
\* stop, the settle sleep and one start.
C22_ForceRunRestartsNow ==
    /\ [][(ForceCalled /\ HasSchedule(schedules, wbot'["cli"]))
            => /\ \A i \in 1..Len(schedules') :
                    schedules'[i].bot_name = wbot'["cli"]
                        => schedules'[i].last_run = now
               /\ HasSchedule(schedules', wbot'["cli"])
               /\ sret' = "ok"
               /\ pc'["cli"] = "settle"
               /\ trace'["cli"] \in {<<"stop_ok">>, <<"stop_fail">>}]_vars
    /\ [][(mode["cli"] = "restart" /\ pc["cli"] = "settle"
                /\ pc'["cli"] # "settle")
            => pc'["cli"] \in {"build", "done"}]_vars

C22_Witness ==
    /\ pc["cli"] = "done"
    /\ mode["cli"] = "restart"
    /\ trace["cli"] = <<"stop_ok", "settle", "start_ok">>
    /\ sret = "ok"
    /\ now = MaxNow
    /\ \E i \in 1..Len(schedules) :
        /\ schedules[i].bot_name = wbot["cli"]
        /\ schedules[i].created_at = now
        /\ schedules[i].last_run = now
    /\ \E j \in 1..Len(jobs) : jobs[j].tag = wbot["cli"] /\ ~jobs[j].due

\* C23: the scheduler thread runs the job of a bot only when the job is due;
\* the run writes last_run = now and begins one restart, and the job comes
\* due again one period later; a restart that fails changes no job, and the
\* thread goes back to sleep without another stop or start.
C23_FireOnceThenWait ==
    /\ [][(pc[Scheduler] = "idle" /\ pc'[Scheduler] # "idle") =>
            LET b == wbot'[Scheduler] IN
            /\ \E j \in 1..Len(jobs) : jobs[j].tag = b /\ jobs[j].due
            /\ \A j \in 1..Len(jobs') : jobs'[j].tag = b => ~jobs'[j].due
            /\ Triggers(jobs') = Triggers(jobs)
            /\ \A i \in 1..Len(schedules') :
                    schedules'[i].bot_name = b => schedules'[i].last_run = now
            /\ pc'[Scheduler] = "settle"
            /\ Len(trace'[Scheduler]) = 1]_vars
    /\ [][(pc[Scheduler] \in {"settle", "build"} /\ pc'[Scheduler] = "done"
                /\ ret'[Scheduler] = "fail")
            => jobs' = jobs /\ schedules' = schedules]_vars
    /\ [][(pc[Scheduler] = "done" /\ pc'[Scheduler] # "done")
            => /\ pc'[Scheduler] = "idle"
               /\ bots' = bots /\ docker' = docker /\ jobs' = jobs]_vars

C23_Witness ==
    /\ pc[Scheduler] = "idle"
    /\ ret["cli"] = "none"
    /\ StatusOf("alpha") = "stopped"
    /\ docker["alpha"] = CreatedContainer
    /\ \E i \in 1..Len(schedules) :
        schedules[i].bot_name = "alpha" /\ schedules[i].last_run = MaxNow
    /\ \E j \in 1..Len(jobs) : jobs[j].tag = "alpha" /\ ~jobs[j].due

\* The record _update_bot_record(name, 'running', config) stores, the
\* fields it does not name being absent.
StoredRunning(config, t) ==
    [status |-> "running", config |-> config, started_at |-> t,
     stopped_at |-> None, crashed_at |-> None, exit_code |-> None]

\* C25: after start_bot has stored the running record of a bot, the record
\* the table holds for the name is equal to the stored one in every field,
\* whatever record the name had before.
C25_UpsertThenGet ==
    [][(pc["cli"] = "build" /\ pc'["cli"] = "done" /\ ret'["cli"] = "ok")
        => bots'[wbot["cli"]] = StoredRunning(cfgFile[wbot["cli"]], now)]_vars

\* The crash sweep handles the listed container of bot b in this step.
CrashHandles(b) ==
    /\ pc["crash"] = "sweep"
    /\ b \in DOMAIN pending["crash"]
    /\ b \notin DOMAIN pending'["crash"]

\* C29: _handle_container_crash for an exited or dead container whose name
\* has no record, or a record whose status is not running, writes nothing
\* and enters no crash-restart procedure.
C29_CrashSweepSkips ==
    [][\A b \in Bots :
        (CrashHandles(b) /\ StatusOf(b) # "running")
            => /\ bots' = bots
               /\ docker' = docker
               /\ pc'["crash"] = "sweep"
               /\ mode'["crash"] = "none"
               /\ calls' = calls]_vars

C29_Witness ==
    /\ pc["crash"] = "sweep"
    /\ mode["crash"] = "none"
    /\ DOMAIN pending["crash"] = {"alpha"}
    /\ StatusOf("alpha") = "crashed"
    /\ docker["alpha"].status = "exited"
    /\ ~HasRecord("beta")
    /\ docker["beta"].status = "dead"

\* C30: no sweep is in a crash-restart procedure for a bot whose stored
\* config has restart_on_crash = false, and the crash sweep marks such a
\* bot crashed, with the exit code of the container and the time, and
\* goes on with its list.
C30_NoRestartWhenDisabled ==
    /\ [][\A w \in Monitors :
            (mode'[w] = "proc" /\ HasRecord(wbot'[w]))
                => bots'[wbot'[w]].config.restart_on_crash]_vars
    /\ [][\A b \in Bots :
            (CrashHandles(b) /\ StatusOf(b) = "running"
                    /\ ~bots[b].config.restart_on_crash)
                => /\ bots'[b].status = "crashed"
                   /\ bots'[b].exit_code = docker[b].exit_code
                   /\ bots'[b].crashed_at = now
                   /\ pc'["crash"] = "sweep"
                   /\ mode'["crash"] = "none"]_vars

C30_Witness ==
    /\ StatusOf("alpha") = "crashed"
    /\ bots["alpha"].config = ManualConfig
    /\ bots["alpha"].exit_code = 137
    /\ docker["alpha"].status = "exited"
    /\ \A w \in Monitors : pc[w] = "idle" /\ calls[w] = 0

\* C26: a list_bots, list_schedules or health_check during which the table
\* cannot be read gives its caller a value that says so, never the value an
\* empty table gives.
C26_StoreErrorsSurface ==
    (listed.op # "none" /\ ~listed.readable) => listed.value.error

\* C27: whatever the webhook endpoint answers, a start_bot whose container
\* runs stores the running record and returns True, a crash-restart
\* procedure ends at once after such a start, and the notification at the
\* end of a procedure writes nothing to the table.
C27_NotifierNeverDecides ==
    /\ [][\A w \in Workers :
            (pc[w] = "build" /\ pc'[w] # "build"
                    /\ docker'[wbot[w]] = RunningContainer)
                => /\ ret'[w] = "ok"
                   /\ bots'[wbot[w]].status = "running"
                   /\ pc'[w] = IF mode[w] = "proc" THEN "restarted" ELSE "done"]_vars
    /\ [][\A w \in Monitors :
            (pc[w] \in {"restarted", "exhausted"} /\ pc'[w] # pc[w])
                => bots' = bots /\ docker' = docker /\ pc'[w] = "sweep"]_vars
    /\ [][hook' # hook => bots' = bots /\ pc' = pc /\ ret' = ret]_vars

C27_Witness ==
    /\ hook = "timeout"
    /\ pc["crash"] = "restarted"
    /\ note["crash"] = "restarted"
    /\ attempt["crash"] = 1
    /\ StatusOf("alpha") = "running"
    /\ pc["cli"] = "done"
    /\ ret["cli"] = "fail"

\* C28: a request goes to an endpoint only when at least the minimum
\* interval of 5 seconds has passed since the last request to it and, once
\* the endpoint has answered 429 with retry-after R, not before R has
\* passed since that answer; the entry and the requests of the other
\* endpoints are not touched.
C28_RateLimitPerEndpoint ==
    [][\A u \in Endpoints :
        lastPost'[u] # lastPost[u] =>
            /\ (lastPost[u] # None /\ retryUntil[u] = None)
                    => clock - lastPost[u] >= 5
            /\ retryUntil[u] # None => clock >= retryUntil[u]
            /\ \A v \in Endpoints \ {u} :
                /\ lastPost'[v] = lastPost[v]
                /\ retryUntil'[v] = retryUntil[v]
                /\ (v \in DOMAIN rate_limits' <=> v \in DOMAIN rate_limits)
                /\ v \in DOMAIN rate_limits => rate_limits'[v] = rate_limits[v]]_vars

\* A restart is between its stop_bot and the return of its start_bot.
MidRestart(w) == pc[w] \in {"settle", "build"}

\* C24: once the shutdown is requested no sweep loop begins a sweep, the
\* cleanup removes no container and the scheduler thread runs no job; and a
\* restart that is between its stop and its start is left only by its own
\* start_bot returning, never by the loop ending under it.
C24_ShutdownLetsRestartsFinish ==
    /\ [][~mrun =>
            /\ \A w \in Monitors : ~(pc[w] = "idle" /\ pc'[w] = "sweep")
            /\ pc' = pc =>
                  \A b \in Bots : docker'[b] = NoContainer =>
                                      docker[b] = NoContainer]_vars
    /\ [][~srun => ~(pc[Scheduler] = "idle" /\ pc'[Scheduler] = "settle")]_vars
    /\ [][\A w \in Monitors \cup {Scheduler} :
            MidRestart(w) => pc'[w] # "exited"]_vars
    /\ [][sthread' < sthread => ~MidRestart(Scheduler)]_vars

\* A sweep of the loop w begins, or fails before its list is read.
Wakes(w) ==
    /\ pc[w] = "idle"
    /\ pc'[w] = "sweep" \/ nap'[w] # nap[w]

CleanupActs ==
    /\ pc' = pc
    /\ \E b \in Bots : docker[b] # NoContainer /\ docker'[b] = NoContainer

\* C32: a step of the cleanup sweep takes away containers that have exited,
\* and nothing else: no container in another state goes or changes, and the
\* tables of the bots and of the schedules, and the installed jobs, stay as
\* they are.
C32_CleanupOnlyRemovesExited ==
    [][CleanupActs =>
          /\ bots' = bots
          /\ docs' = docs
          /\ schedules' = schedules
          /\ jobs' = jobs
          /\ \A b \in Bots :
                docker'[b] # docker[b] =>
                    docker[b].status = "exited" /\ docker'[b] = NoContainer]_vars

\* The cleanup has taken the exited container of alpha before a sweep saw
\* it: the record still says running, and a schedule is stored.
C32_Witness ==
    /\ HasRecord("alpha")
    /\ bots["alpha"].status = "running"
    /\ docker["alpha"] = NoContainer
    /\ Len(schedules) = 1

\* `t10 stop` of bot b has returned success and no command came after it.
StopReturned(b) ==
    /\ pc["cli"] = "done"
    /\ mode["cli"] = "stop"
    /\ wbot["cli"] = b
    /\ ret["cli"] = "ok"

\* C33: after an explicit stop that completed while the crash-restart
\* procedure of the bot waited in its settle delay or in backoff, and with
\* no explicit start or restart given since, the bot stays stopped: the
\* record says stopped and no container of the bot runs.
C33_StopDuringWaitHolds ==
    StopReturned("alpha") =>
        /\ bots["alpha"].status = "stopped"
        /\ docker["alpha"].status # "running"

\* The health sweep calls _handle_bot_crash in this step.
HealthInvokes ==
    /\ pc["health"] = "sweep"
    /\ mode["health"] # "proc"
    /\ mode'["health"] = "proc"

\* C34: when the health sweep calls the crash-restart procedure for a bot,
\* the stored status of that bot is running at that moment, not only when
\* the sweep read its list.
C34_HealthInvokesOnlyRunning ==
    [][HealthInvokes =>
          /\ HasRecord(wbot'["health"])
          /\ bots[wbot'["health"]].status = "running"]_vars

\* C35: where no container ends by itself, so that every container that is
\* down was stopped by an explicit stop or by the stop step of a restart,
\* the crash sweep handles no container as a crash: it writes no record and
\* enters no crash-restart procedure.
C35_StopIsNotACrash ==
    [][\A b \in Bots :
          CrashHandles(b) =>
              /\ bots' = bots
              /\ mode'["crash"] = "none"]_vars

\* No operation on bot b is in flight: every command on it has returned.
Quiet(b) == \A w \in Workers : wbot[w] = b => pc[w] \in {"idle", "done"}

\* C36: when no operation is in flight for a bot whose stored status is
\* stopped, no container of that bot is running.
C36_StoppedMeansNotRunning ==
    \A b \in Bots :
        (Quiet(b) /\ StatusOf(b) = "stopped") => docker[b].status # "running"

\* The record of bot b says running and its container does not run.
DownButRunning(b) ==
    /\ HasRecord(b)
    /\ bots[b].status = "running"
    /\ docker[b].status # "running"

\* C37: a bot stored as running whose container is down is, in the end,
\* either no longer stored as running or has a running container again.
C37_DownIsNoticed ==
    \A b \in Bots : DownButRunning(b) ~> ~DownButRunning(b)

\* C38: at most one thread runs the scheduler loop at any time.
C38_OneSchedulerLoop == sthread <= 1

\* C39: while the scheduler loop runs, every record of the schedules table
\* has exactly one installed job of its bot.
C39_EveryRecordHasTrigger ==
    (srun /\ sthread > 0) =>
        \A i \in 1..Len(schedules) :
            Cardinality(JobsOf(schedules[i].bot_name)) = 1

\* force_run_schedule has run its restart to the end and returned.
ForceReturned ==
    /\ pc["cli"] = "done"
    /\ mode["cli"] = "restart"

\* C40: force_run_schedule returns True only when the restart it made
\* succeeded; with a ScheduleRecord and a bot that failed to start it
\* returns False.
C40_ForceRunReportsRestart ==
    (ForceReturned /\ sret = "ok") => ret["cli"] = "ok"

====
